---- MODULE Spec2Model ----
(***************************************************************************)
(* Model of the f64Mat dense-matrix core of uwu-matrix                     *)
(* (src/demo/p2/mesh.ts lines 164-731): construction, element access,      *)
(* elementwise arithmetic, matrix product and the Gaussian-elimination     *)
(* based inverse and determinant.                                          *)
(*                                                                         *)
(* Numbers are exact rationals <<n, d>> in lowest terms with d > 0;        *)
(* <<0, 0>> is NaN, which is also what reading a buffer outside its        *)
(* length (undefined) turns into in arithmetic.                            *)
(* Float64 rounding is not modelled; the thresholds 1e-6, 1e-5 and 1e-8    *)
(* of the source are kept as exact rationals.                              *)
(*                                                                         *)
(* A matrix is the record [rowCount, colCount, value]; value is the        *)
(* column-major buffer, the 0-based buffer index i being value[i + 1].     *)
(*                                                                         *)
(* Spec runs one call per behaviour on matrices passed by value.           *)
(* EliminationSpec is Spec restricted to inverse and determinant, with the *)
(* fairness that lets a call run to its end.  StorageSpec runs the calls   *)
(* on matrices whose value is the address of a buffer in heap, and lets    *)
(* the caller write into the buffers afterwards.  Mat4Spec runs the calls  *)
(* of the fixed 4x4 layer built on the core, and CloneSpec clones an       *)
(* instance of the mutable DynamicMatrix class and scales the clone.       *)
(***************************************************************************)
EXTENDS Integers, Sequences, FiniteSets, TLC

(***************************************************************************)
(* Bounds of the model.                                                    *)
(***************************************************************************)
\* largest rowCount / colCount of the matrices inverse and determinant get
MaxSize == 2
\* entries of those matrices are the integers 0 .. MaxVal
MaxVal == 1
\* the operands of the other operations are, per shape, the matrices
\* Ramp(rowCount, colCount, 0 .. MaxSeed)
MaxSeed == 2
\* indices handed to valueAt range over -MaxIndexSlack .. size-1+MaxIndexSlack
MaxIndexSlack == 1
\* the caller writes into the buffers at most MaxWrites times after a call
MaxWrites == 2

(***************************************************************************)
(* Exact rational arithmetic standing for the JavaScript number type.      *)
(***************************************************************************)
Abs(x) == IF x < 0 THEN -x ELSE x

RECURSIVE GCD(_, _)
GCD(x, y) == IF y = 0 THEN x ELSE GCD(y, x % y)

Rat(n, d) ==
  LET g == GCD(Abs(n), Abs(d))
      s == IF d < 0 THEN -1 ELSE 1
  IN  <<(s * n) \div g, (s * d) \div g>>

RInt(n) == <<n, 1>>
Zero == <<0, 1>>
One == <<1, 1>>
NaN == <<0, 0>>
\* +Infinity; it is only stored and compared, no arithmetic is done on it
Infinity == <<1, 0>>
IsNaN(x) == x[2] = 0

\* x + y, cancelling the common factor of the denominators first
RAdd(x, y) ==
  IF IsNaN(x) \/ IsNaN(y)
  THEN NaN
  ELSE LET g == GCD(x[2], y[2])
       IN  Rat(x[1] * (y[2] \div g) + y[1] * (x[2] \div g),
               (x[2] \div g) * y[2])

RNeg(x) == <<-x[1], x[2]>>

RSub(x, y) == RAdd(x, RNeg(y))

\* x * y, cancelling crosswise first
RMul(x, y) ==
  IF IsNaN(x) \/ IsNaN(y)
  THEN NaN
  ELSE LET g1 == GCD(Abs(x[1]), y[2])
           g2 == GCD(Abs(y[1]), x[2])
       IN  Rat((x[1] \div g1) * (y[1] \div g2),
               (x[2] \div g2) * (y[2] \div g1))

\* 1 / x for x # 0
RInv(x) == IF IsNaN(x) THEN NaN ELSE Rat(x[2], x[1])

RAbs(x) == <<Abs(x[1]), x[2]>>

\* x < y, comparing the integer parts before the fractional parts
RLt(x, y) ==
  ~IsNaN(x) /\ ~IsNaN(y) /\
  LET qx == IF x[1] >= 0 THEN x[1] \div x[2] ELSE -((-x[1] + x[2] - 1) \div x[2])
      qy == IF y[1] >= 0 THEN y[1] \div y[2] ELSE -((-y[1] + y[2] - 1) \div y[2])
      rx == x[1] - qx * x[2]
      ry == y[1] - qy * y[2]
  IN  IF qx # qy THEN qx < qy ELSE rx * y[2] < ry * x[2]

\* |x| < 1 / k for a positive integer k
BelowInverseOf(x, k) == ~IsNaN(x) /\ Abs(x[1]) <= (x[2] - 1) \div k

(***************************************************************************)
(* Program constants: the thresholds of inverse and determinant, written   *)
(* as the k of 1 / k.                                                      *)
(***************************************************************************)
\* 1e-6: `maxAbs < 1e-6` throws SingularMatrixError in inverse
InverseSingularK == 1000000
\* 1e-5: `Math.abs(pivotValue) < 1e-5` starts the pivot search of determinant
DeterminantPivotK == 100000
\* 1e-8: `Math.abs(factor) < 1e-8` skips the elimination of a row
EliminationSkipK == 100000000

(***************************************************************************)
(* Results of a call: a matrix, a number, a boolean or a thrown error.     *)
(***************************************************************************)
NoResult == [kind |-> "none"]
Returned(matrix) == [kind |-> "matrix", val |-> matrix]
ReturnedNumber(q) == [kind |-> "number", val |-> q]
ReturnedBoolean(b) == [kind |-> "boolean", val |-> b]
ReturnedArray(array) == [kind |-> "array", val |-> array]
\* a ValidationError whose cause carries no reason of its own
ValidationError_ReasonDropped(reason) ==
  [kind |-> "error", val |-> [name |-> "ValidationError", reason |-> "invalid"]]

ValidationError(reason) ==
  [kind |-> "error", val |-> [name |-> "ValidationError", reason |-> reason]]
SingularMatrixError ==
  [kind |-> "error", val |-> [name |-> "SingularMatrixError", reason |-> "singular"]]

\* a JavaScript number as an element of an input array
JsNumber(q) == [type |-> "number", num |-> q]
\* an element whose typeof is not "number"; no buffer ever receives it
JsNonNumber(type) == [type |-> type, num |-> NaN]

(***************************************************************************)
(* Construction.                                                           *)
(***************************************************************************)
\* the 0-based element i of a buffer; outside the buffer the read gives
\* undefined
Elem(value, i) == IF i \in 0..(Len(value) - 1) THEN value[i + 1] ELSE NaN

init(value, rowCount, colCount) ==
  [rowCount |-> rowCount, colCount |-> colCount, value |-> value]

is2dNumberArray(value) ==
  /\ Len(value) > 0
  /\ \A r \in 1..Len(value) :
       \A c \in 1..Len(value[r]) : value[r][c].type = "number"

\* fromRowMajor copying the rows in order, without the transposition
fromRowMajor_NoTranspose(rowMajor) ==
  IF ~is2dNumberArray(rowMajor)
  THEN ValidationError("not2dNumberArray")
  ELSE IF ~(\A r \in 1..Len(rowMajor) : Len(rowMajor[r]) = Len(rowMajor[1]))
  THEN ValidationError("columnsHaveDifferentRowCounts")
  ELSE LET rowCount == Len(rowMajor)
           colCount == Len(rowMajor[1])
           value == [i \in 1..(rowCount * colCount) |->
                       rowMajor[((i - 1) \div colCount) + 1]
                               [((i - 1) % colCount) + 1].num]
       IN  Returned(init(value, rowCount, colCount))

fromRowMajor(rowMajor) ==
  IF ~is2dNumberArray(rowMajor)
  THEN ValidationError("not2dNumberArray")
  ELSE IF ~(\A r \in 1..Len(rowMajor) : Len(rowMajor[r]) = Len(rowMajor[1]))
  THEN ValidationError("columnsHaveDifferentRowCounts")
  ELSE LET rowCount == Len(rowMajor)
           colCount == Len(rowMajor[1])
           \* buffer index i = col * rowCount + row
           value == [i \in 1..(rowCount * colCount) |->
                       rowMajor[((i - 1) % rowCount) + 1]
                               [((i - 1) \div rowCount) + 1].num]
       IN  Returned(init(value, rowCount, colCount))

RECURSIVE Flat(_)
Flat(arrays) ==
  IF arrays = <<>> THEN <<>> ELSE Head(arrays) \o Flat(Tail(arrays))

\* fromColumnMajor laying the buffer out as fromRowMajor does
fromColumnMajor_Transposed(columnMajor) ==
  IF ~is2dNumberArray(columnMajor)
  THEN ValidationError("not2dNumberArray")
  ELSE IF ~(\A c \in 1..Len(columnMajor) :
              Len(columnMajor[c]) = Len(columnMajor[1]))
  THEN ValidationError("columnsHaveDifferentRowCounts")
  ELSE LET rowCount == Len(columnMajor[1])
           colCount == Len(columnMajor)
           value == [i \in 1..(rowCount * colCount) |->
                       columnMajor[((i - 1) % colCount) + 1]
                                  [((i - 1) \div colCount) + 1].num]
       IN  Returned(init(value, rowCount, colCount))

fromColumnMajor(columnMajor) ==
  IF ~is2dNumberArray(columnMajor)
  THEN ValidationError("not2dNumberArray")
  ELSE IF ~(\A c \in 1..Len(columnMajor) :
              Len(columnMajor[c]) = Len(columnMajor[1]))
  THEN ValidationError("columnsHaveDifferentRowCounts")
  ELSE LET rowCount == Len(columnMajor[1])
           colCount == Len(columnMajor)
           flat == Flat(columnMajor)
           value == [i \in 1..Len(flat) |-> flat[i].num]
       IN  Returned(init(value, rowCount, colCount))

getClone(matrix) ==
  [matrix EXCEPT !.value = [i \in 1..Len(matrix.value) |-> matrix.value[i]]]

\* getIdentity rejecting the negative sizes only
getIdentity_ZeroAccepted(size) ==
  IF size < 0
  THEN ValidationError("invalidSize")
  ELSE Returned(init([i \in 1..(size * size) |->
                        IF (i - 1) % size = (i - 1) \div size THEN One ELSE Zero],
                     size, size))

getIdentity(size) ==
  IF size <= 0
  THEN ValidationError("invalidSize")
  ELSE Returned(init([i \in 1..(size * size) |->
                        IF (i - 1) % size = (i - 1) \div size THEN One ELSE Zero],
                     size, size))

\* the elements row by row in one array
toRowMajorArray(matrix) ==
  [k \in 1..(matrix.rowCount * matrix.colCount) |->
     JsNumber(Elem(matrix.value,
                   ((k - 1) % matrix.colCount) * matrix.rowCount
                      + ((k - 1) \div matrix.colCount)))]

\* toRowMajor2dArray reading the buffer as if it were row-major
toRowMajor2dArray_NoTranspose(matrix) ==
  [row \in 1..matrix.rowCount |->
     [col \in 1..matrix.colCount |->
        JsNumber(Elem(matrix.value, (row - 1) * matrix.colCount + (col - 1)))]]

\* one array per row
toRowMajor2dArray(matrix) ==
  [row \in 1..matrix.rowCount |->
     [col \in 1..matrix.colCount |->
        JsNumber(Elem(matrix.value, (col - 1) * matrix.rowCount + (row - 1)))]]

\* the tag every f64Mat carries in its field `type`
TYPE_NAME == "f64Mat"

\* the type guard; its argument is any JavaScript value, described by its
\* typeof, whether it is null, and the fields the guard reads
isf64Mat(value) ==
  IF value.typeof # "object" \/ value.isNull
  THEN FALSE
  ELSE /\ value.type = TYPE_NAME
       /\ value.class = "Float64Array"
       /\ value.rowCount.type = "number"
       /\ value.colCount.type = "number"
       /\ RLt(Zero, value.rowCount.num)
       /\ RLt(Zero, value.colCount.num)

(***************************************************************************)
(* Element access and arithmetic.                                          *)
(***************************************************************************)
\* valueAt without the check of the row index
valueAt_NoRowCheck(matrix, rowIndex, columnIndex) ==
  IF columnIndex < 0 \/ columnIndex >= matrix.colCount
  THEN ValidationError("outOfBounds")
  ELSE ReturnedNumber(Elem(matrix.value, columnIndex * matrix.rowCount + rowIndex))

valueAt(matrix, rowIndex, columnIndex) ==
  IF columnIndex < 0 \/ columnIndex >= matrix.colCount
  THEN ValidationError("outOfBounds")
  ELSE IF rowIndex < 0 \/ rowIndex >= matrix.rowCount
  THEN ValidationError("outOfBounds")
  ELSE ReturnedNumber(Elem(matrix.value, columnIndex * matrix.rowCount + rowIndex))

\* sameSize comparing the row counts only
sameSize_RowsOnly(a, b) == a.rowCount = b.rowCount

sameSize(a, b) == a.rowCount = b.rowCount /\ a.colCount = b.colCount

add(a, b) ==
  IF ~sameSize(a, b)
  THEN ValidationError("sizeMismatch")
  ELSE Returned(init([i \in 1..Len(a.value) |->
                        RAdd(a.value[i], Elem(b.value, i - 1))],
                     a.rowCount, a.colCount))

subtract(a, b) ==
  IF ~sameSize(a, b)
  THEN ValidationError("sizeMismatch")
  ELSE Returned(init([i \in 1..Len(a.value) |->
                        RSub(a.value[i], Elem(b.value, i - 1))],
                     a.rowCount, a.colCount))

multiplyScalar(matrix, scalar) ==
  Returned(init([i \in 1..Len(matrix.value) |-> RMul(matrix.value[i], scalar)],
                matrix.rowCount, matrix.colCount))

\* the inner loop of multiply stopping one term early
RECURSIVE MultiplySum_OffByOne(_, _, _, _, _, _)
MultiplySum_OffByOne(a, b, row, col, k, sum) ==
  IF k >= a.colCount - 1
  THEN sum
  ELSE MultiplySum_OffByOne(a, b, row, col, k + 1,
         RAdd(sum, RMul(Elem(a.value, k * a.rowCount + row),
                        Elem(b.value, col * b.rowCount + k))))

\* the inner loop of multiply: sum += a[row,k] * b[k,col] for k ascending
RECURSIVE MultiplySum(_, _, _, _, _, _)
MultiplySum(a, b, row, col, k, sum) ==
  IF k >= a.colCount
  THEN sum
  ELSE MultiplySum(a, b, row, col, k + 1,
         RAdd(sum, RMul(Elem(a.value, k * a.rowCount + row),
                        Elem(b.value, col * b.rowCount + k))))

\* multiply allocating the result with the shape of its left operand
multiply_LeftShapedBuffer(a, b) ==
  IF a.colCount # b.rowCount
  THEN ValidationError("sizeMismatch")
  ELSE Returned(init([i \in 1..(a.rowCount * a.colCount) |->
                        MultiplySum(a, b, (i - 1) % a.rowCount,
                                    (i - 1) \div a.rowCount, 0, Zero)],
                     a.rowCount, b.colCount))

multiply(a, b) ==
  IF a.colCount # b.rowCount
  THEN ValidationError("sizeMismatch")
  ELSE Returned(init([i \in 1..(a.rowCount * b.colCount) |->
                        MultiplySum(a, b, (i - 1) % a.rowCount,
                                    (i - 1) \div a.rowCount, 0, Zero)],
                     a.rowCount, b.colCount))

RECURSIVE Pow10(_)
Pow10(n) == IF n = 0 THEN 1 ELSE 10 * Pow10(n - 1)

\* `Math.pow(10, -precisionExponent)` for an integer exponent
Epsilon(precisionExponent) ==
  IF precisionExponent[1] >= 0
  THEN Rat(1, Pow10(precisionExponent[1]))
  ELSE RInt(Pow10(-precisionExponent[1]))

\* `v === w` on numbers
StrictEquals(v, w) == ~IsNaN(v) /\ ~IsNaN(w) /\ v = w

\* equals accepting a difference of exactly epsilon
equals_NonStrict(a, b, precisionExponent) ==
  IF a.rowCount # b.rowCount \/ a.colCount # b.colCount
  THEN ReturnedBoolean(FALSE)
  ELSE IF precisionExponent = Infinity
  THEN ReturnedBoolean(\A i \in 1..Len(a.value) :
                         StrictEquals(a.value[i], Elem(b.value, i - 1)))
  ELSE ReturnedBoolean(\A i \in 1..Len(a.value) :
          ~RLt(Epsilon(precisionExponent),
               RAbs(RSub(a.value[i], Elem(b.value, i - 1)))))

\* precisionExponent is Infinity (the default) or an integer
equals(a, b, precisionExponent) ==
  IF a.rowCount # b.rowCount \/ a.colCount # b.colCount
  THEN ReturnedBoolean(FALSE)
  ELSE IF precisionExponent = Infinity
  THEN ReturnedBoolean(\A i \in 1..Len(a.value) :
                         StrictEquals(a.value[i], Elem(b.value, i - 1)))
  ELSE ReturnedBoolean(\A i \in 1..Len(a.value) :
          RLt(RAbs(RSub(a.value[i], Elem(b.value, i - 1))),
              Epsilon(precisionExponent)))

(***************************************************************************)
(* Row operations of the elimination engine.  The source mutates the       *)
(* working matrix in place; here each returns the matrix after the call.   *)
(***************************************************************************)
\* the row (0-based) that buffer index i (1-based) belongs to
RowOf(matrix, i) == (i - 1) % matrix.rowCount

swapRows(matrix, row1, row2) ==
  IF row1 = row2
  THEN matrix
  ELSE [matrix EXCEPT !.value =
         [i \in 1..Len(matrix.value) |->
            IF RowOf(matrix, i) = row1 THEN matrix.value[i - row1 + row2]
            ELSE IF RowOf(matrix, i) = row2 THEN matrix.value[i - row2 + row1]
            ELSE matrix.value[i]]]

subtractScaledRow(matrix, targetRowIndex, sourceRowIndex, scalar) ==
  [matrix EXCEPT !.value =
     [i \in 1..Len(matrix.value) |->
        IF RowOf(matrix, i) = targetRowIndex
        THEN RSub(matrix.value[i],
                  RMul(matrix.value[i - targetRowIndex + sourceRowIndex], scalar))
        ELSE matrix.value[i]]]

scaleRow(matrix, row, scalar) ==
  [matrix EXCEPT !.value =
     [i \in 1..Len(matrix.value) |->
        IF RowOf(matrix, i) = row THEN RMul(matrix.value[i], scalar)
        ELSE matrix.value[i]]]

\* the pivot search replacing the row on `val >= maxAbs`: the last row that
\* attains the maximum is kept
RECURSIVE FindMaxRow_LastMaximum(_, _, _, _, _, _)
FindMaxRow_LastMaximum(matrix, size, pivot, i, maxRow, maxAbs) ==
  IF i >= size
  THEN [maxRow |-> maxRow, maxAbs |-> maxAbs]
  ELSE LET val == RAbs(valueAt(matrix, i, pivot).val)
       IN  IF ~RLt(val, maxAbs)
           THEN FindMaxRow_LastMaximum(matrix, size, pivot, i + 1, i, val)
           ELSE FindMaxRow_LastMaximum(matrix, size, pivot, i + 1, maxRow,
                                       maxAbs)

\* the pivot search shared by inverse and determinant: rows i..size-1 of
\* column pivot, keeping the first row that attains the maximum
RECURSIVE FindMaxRow(_, _, _, _, _, _)
FindMaxRow(matrix, size, pivot, i, maxRow, maxAbs) ==
  IF i >= size
  THEN [maxRow |-> maxRow, maxAbs |-> maxAbs]
  ELSE LET val == RAbs(valueAt(matrix, i, pivot).val)
       IN  IF RLt(maxAbs, val)
           THEN FindMaxRow(matrix, size, pivot, i + 1, i, val)
           ELSE FindMaxRow(matrix, size, pivot, i + 1, maxRow, maxAbs)

\* the elimination loop of inverse clearing the rows below the pivot row
\* only, as determinant does
RECURSIVE InverseEliminate_BelowPivotOnly(_, _, _, _, _)
InverseEliminate_BelowPivotOnly(work, inverted, size, pivot, row) ==
  IF row >= size
  THEN [m |-> work, inv |-> inverted]
  ELSE IF row <= pivot
  THEN InverseEliminate_BelowPivotOnly(work, inverted, size, pivot, row + 1)
  ELSE LET factor == valueAt(work, row, pivot).val
       IN  IF BelowInverseOf(factor, EliminationSkipK)
           THEN InverseEliminate_BelowPivotOnly(work, inverted, size, pivot,
                                                row + 1)
           ELSE InverseEliminate_BelowPivotOnly(
                  subtractScaledRow(work, row, pivot, factor),
                  subtractScaledRow(inverted, row, pivot, factor),
                  size, pivot, row + 1)

\* the elimination loop of inverse: every row but the pivot row, on the
\* pair of working matrices
RECURSIVE InverseEliminate(_, _, _, _, _)
InverseEliminate(work, inverted, size, pivot, row) ==
  IF row >= size
  THEN [m |-> work, inv |-> inverted]
  ELSE IF row = pivot
  THEN InverseEliminate(work, inverted, size, pivot, row + 1)
  ELSE LET factor == valueAt(work, row, pivot).val
       IN  IF BelowInverseOf(factor, EliminationSkipK)
           THEN InverseEliminate(work, inverted, size, pivot, row + 1)
           ELSE InverseEliminate(subtractScaledRow(work, row, pivot, factor),
                                 subtractScaledRow(inverted, row, pivot, factor),
                                 size, pivot, row + 1)

\* one iteration of the pivot loop of inverse leaving the rows of inv
\* unswapped
InversePivotStep_InvNotSwapped(work, inverted, size, pivot) ==
  LET found == FindMaxRow(work, size, pivot, pivot + 1, pivot,
                          RAbs(valueAt(work, pivot, pivot).val))
  IN  IF BelowInverseOf(found.maxAbs, InverseSingularK)
      THEN [thrown |-> TRUE, m |-> work, inv |-> inverted]
      ELSE LET m1 == IF found.maxRow # pivot
                     THEN swapRows(work, pivot, found.maxRow) ELSE work
               pivotValue == valueAt(m1, pivot, pivot).val
               m2 == scaleRow(m1, pivot, RInv(pivotValue))
               i2 == scaleRow(inverted, pivot, RInv(pivotValue))
               done == InverseEliminate(m2, i2, size, pivot, 0)
           IN  [thrown |-> FALSE, m |-> done.m, inv |-> done.inv]

\* one iteration of the pivot loop of inverse
InversePivotStep(work, inverted, size, pivot) ==
  LET found == FindMaxRow(work, size, pivot, pivot + 1, pivot,
                          RAbs(valueAt(work, pivot, pivot).val))
  IN  IF BelowInverseOf(found.maxAbs, InverseSingularK)
      THEN [thrown |-> TRUE, m |-> work, inv |-> inverted]
      ELSE LET m1 == IF found.maxRow # pivot
                     THEN swapRows(work, pivot, found.maxRow) ELSE work
               i1 == IF found.maxRow # pivot
                     THEN swapRows(inverted, pivot, found.maxRow) ELSE inverted
               pivotValue == valueAt(m1, pivot, pivot).val
               m2 == scaleRow(m1, pivot, RInv(pivotValue))
               i2 == scaleRow(i1, pivot, RInv(pivotValue))
               done == InverseEliminate(m2, i2, size, pivot, 0)
           IN  [thrown |-> FALSE, m |-> done.m, inv |-> done.inv]

\* the working matrices after each subtraction of the elimination loop of
\* inverse, in order
RECURSIVE InverseEliminateOperations(_, _, _, _, _)
InverseEliminateOperations(work, inverted, size, pivot, row) ==
  IF row >= size
  THEN <<>>
  ELSE IF row = pivot
  THEN InverseEliminateOperations(work, inverted, size, pivot, row + 1)
  ELSE LET factor == valueAt(work, row, pivot).val
           m1 == subtractScaledRow(work, row, pivot, factor)
           i1 == subtractScaledRow(inverted, row, pivot, factor)
       IN  IF BelowInverseOf(factor, EliminationSkipK)
           THEN InverseEliminateOperations(work, inverted, size, pivot, row + 1)
           ELSE <<[m |-> m1, inv |-> i1]>> \o
                InverseEliminateOperations(m1, i1, size, pivot, row + 1)

\* the working matrices after each row operation of one iteration of the
\* pivot loop of inverse that does not throw: the swap (if any), the
\* scaling and the subtractions
InverseRowOperations(work, inverted, size, pivot) ==
  LET found == FindMaxRow(work, size, pivot, pivot + 1, pivot,
                          RAbs(valueAt(work, pivot, pivot).val))
      swaps == found.maxRow # pivot
      m1 == IF swaps THEN swapRows(work, pivot, found.maxRow) ELSE work
      i1 == IF swaps THEN swapRows(inverted, pivot, found.maxRow) ELSE inverted
      pivotValue == valueAt(m1, pivot, pivot).val
      m2 == scaleRow(m1, pivot, RInv(pivotValue))
      i2 == scaleRow(i1, pivot, RInv(pivotValue))
  IN  (IF swaps THEN <<[m |-> m1, inv |-> i1]>> ELSE <<>>) \o
      <<[m |-> m2, inv |-> i2]>> \o
      InverseEliminateOperations(m2, i2, size, pivot, 0)

\* the elimination loop of determinant: the rows below the pivot row
RECURSIVE DeterminantEliminate(_, _, _, _)
DeterminantEliminate(work, size, pivot, row) ==
  IF row >= size
  THEN work
  ELSE LET factor == valueAt(work, row, pivot).val
       IN  IF BelowInverseOf(factor, EliminationSkipK)
           THEN DeterminantEliminate(work, size, pivot, row + 1)
           ELSE DeterminantEliminate(subtractScaledRow(work, row, pivot, factor),
                                     size, pivot, row + 1)

\* the iteration without the sign flip on a row swap
DeterminantPivotStep_NoSignFlip(work, size, pivot, detIn) ==
  LET pivotValue0 == valueAt(work, pivot, pivot).val
      search == BelowInverseOf(pivotValue0, DeterminantPivotK)
      found == FindMaxRow(work, size, pivot, pivot + 1, pivot, RAbs(pivotValue0))
  IN  IF search /\ found.maxAbs = Zero
      THEN [returned |-> TRUE, m |-> work, det |-> Zero]
      ELSE LET swap == search /\ found.maxRow # pivot
               m1 == IF swap THEN swapRows(work, pivot, found.maxRow) ELSE work
               pivotValue == valueAt(m1, pivot, pivot).val
               m2 == scaleRow(m1, pivot, RInv(pivotValue))
           IN  [returned |-> FALSE,
                m |-> DeterminantEliminate(m2, size, pivot, pivot + 1),
                det |-> RMul(detIn, pivotValue)]

\* one iteration of the pivot loop of determinant
DeterminantPivotStep(work, size, pivot, detIn) ==
  LET pivotValue0 == valueAt(work, pivot, pivot).val
      search == BelowInverseOf(pivotValue0, DeterminantPivotK)
      found == FindMaxRow(work, size, pivot, pivot + 1, pivot, RAbs(pivotValue0))
  IN  IF search /\ found.maxAbs = Zero
      THEN [returned |-> TRUE, m |-> work, det |-> Zero]
      ELSE LET swap == search /\ found.maxRow # pivot
               m1 == IF swap THEN swapRows(work, pivot, found.maxRow) ELSE work
               det1 == IF swap THEN RMul(detIn, RInt(-1)) ELSE detIn
               pivotValue == valueAt(m1, pivot, pivot).val
               det2 == RMul(det1, pivotValue)
               m2 == scaleRow(m1, pivot, RInv(pivotValue))
           IN  [returned |-> FALSE,
                m |-> DeterminantEliminate(m2, size, pivot, pivot + 1),
                det |-> det2]

\* the pivot loop of inverse from iteration pivot to the return or the throw
RECURSIVE InverseLoop(_, _, _, _)
InverseLoop(work, inverted, size, pivot) ==
  IF pivot >= size
  THEN Returned(inverted)
  ELSE LET step == InversePivotStep(work, inverted, size, pivot)
       IN  IF step.thrown
           THEN SingularMatrixError
           ELSE InverseLoop(step.m, step.inv, size, pivot + 1)

\* a whole call of inverse
inverse(matrix) ==
  LET size == matrix.colCount
  IN  IF matrix.rowCount # size
      THEN ValidationError("notSquare")
      ELSE InverseLoop(getClone(matrix), getIdentity(size).val, size, 0)

(***************************************************************************)
(* The DynamicMatrix variant: the same column-major layout over a plain    *)
(* array.                                                                  *)
(***************************************************************************)
\* the shape test passes unless both counts differ
equalsMatrix(a, b) ==
  IF a.rowCount # b.rowCount /\ a.colCount # b.colCount
  THEN FALSE
  ELSE \A i \in 1..Len(a.value) :
          StrictEquals(a.value[i], Elem(b.value, i - 1))

(***************************************************************************)
(* Inputs.                                                                 *)
(***************************************************************************)
Shapes == (1..MaxSize) \X (1..MaxSize)

\* the matrices of a shape with entries in 0 .. MaxVal, by their buffers
GridBuffers(shape) == [1..(shape[1] * shape[2]) -> 0..MaxVal]

GridMatrix(shape, buffer) ==
  init([i \in 1..(shape[1] * shape[2]) |-> RInt(buffer[i])], shape[1], shape[2])

\* a row-major literal of integers as an input array
IntRows(lit) ==
  [r \in 1..Len(lit) |-> [c \in 1..Len(lit[r]) |-> JsNumber(RInt(lit[r][c]))]]

RatRows(lit) ==
  [r \in 1..Len(lit) |-> [c \in 1..Len(lit[r]) |-> JsNumber(lit[r][c])]]

\* the matrices of the test suite and of the documented scenarios
ScenarioMatrices ==
  { fromRowMajor(IntRows(lit)).val : lit \in
      { << <<4, 7>>, <<2, 6>> >>,
        << <<1, 2>>, <<2, 4>> >>,
        << <<4, 6>>, <<3, 8>> >>,
        << <<0, -1>>, <<-1, 0>> >>,
        << <<-1, 2>>, <<2, -1>> >>,
        << <<6, 1, 1>>, <<4, -2, 5>>, <<2, 8, 7>> >>,
        << <<1, 2, 3>>, <<4, 5, 6>>, <<7, 8, 9>> >>,
        << <<3, 0, 2>>, <<2, 0, -2>>, <<0, 1, 1>> >>,
        << <<3, 1, 1, 2>>, <<5, 1, 3, 4>>, <<2, 0, 1, 0>>, <<1, 3, 2, 1>> >>,
        << <<1, 2, 3>>, <<4, 5, 6>> >>,
        << <<5>> >> } }

\* badly scaled matrices: entries below the elimination-skip epsilon 1e-8
\* next to entries of ordinary size.  Every entry is a power of two, so the
\* matrices and every value computed from them are exact in Float64 too.
\* 2^-30, about 9.3e-10
Tiny == Rat(1, 1073741824)
ScaledMatrices ==
  { fromRowMajor(RatRows(lit)).val : lit \in
      { << <<One, One>>, <<Tiny, Tiny>> >>,
        << <<One, Zero>>, <<Tiny, One>> >>,
        \* [[1, 2^11], [2^-30, 2^-19]]: row 1 = 2^-30 * row 0
        << <<One, RInt(2048)>>, <<Tiny, Rat(1, 524288)>> >>,
        \* [[1, 2^27], [2^-28, 1]]: determinant 1/2
        << <<One, RInt(134217728)>>, <<Rat(1, 268435456), One>> >>,
        << <<Tiny, One>>, <<One, One>> >>,
        \* [[2^-30, 1], [-2^-30, 1]]: column 0 ties below both thresholds
        << <<Tiny, One>>, <<RNeg(Tiny), One>> >>,
        \* [[2^-13, 0, 0], [0, 1, 2^30], [2^14, 1, 2^30]]: rows 1 and 2
        \* agree outside column 0, whose cofactors vanish
        << <<Rat(1, 8192), Zero, Zero>>,
           <<Zero, One, RInt(1073741824)>>,
           <<RInt(16384), One, RInt(1073741824)>> >> } }

RampValue(seed, i) == (((i + 1) * (seed + 1)) % (2 * MaxVal + 3)) - MaxVal - 1

Ramp(rowCount, colCount, seed) ==
  init([i \in 1..(rowCount * colCount) |-> RInt(RampValue(seed, i - 1))],
       rowCount, colCount)

RampMatrices == { Ramp(sh[1], sh[2], seed) : sh \in Shapes, seed \in 0..MaxSeed }

\* rectangular input arrays: the rows (or columns) of the ramp matrices
RampArrays ==
  { [r \in 1..sh[1] |-> [c \in 1..sh[2] |->
       JsNumber(RInt(RampValue(seed, (r - 1) * sh[2] + c - 1)))]] :
       sh \in Shapes, seed \in 0..MaxSeed }

\* [], [[]] and [[], []]
DegenerateArrays == { <<>>, << <<>> >>, << <<>>, <<>> >> }

\* arrays whose inner arrays differ in length
RaggedArrays ==
  { IntRows(<< <<1, 2>>, <<3>> >>), IntRows(<< <<1>>, <<2, 3>> >>) }

\* rectangular arrays with an element that is not a finite number
NonFiniteArrays ==
  { << <<JsNumber(NaN)>> >>,
    << <<JsNumber(One), JsNumber(Infinity)>>,
       <<JsNumber(RInt(2)), JsNumber(RInt(3))>> >>,
    << <<JsNumber(RNeg(Infinity))>>, <<JsNumber(Zero)>> >>,
    << <<JsNonNumber("string")>> >>,
    << <<JsNumber(One), JsNumber(RInt(2))>>,
       <<JsNonNumber("undefined"), JsNumber(RInt(3))>> >> }

InputArrays ==
  RampArrays \cup DegenerateArrays \cup RaggedArrays \cup NonFiniteArrays

Scalars == { RInt(k) : k \in (-MaxVal)..MaxVal } \cup { Rat(1, 2) }

Indices == (-MaxIndexSlack)..(MaxSize - 1 + MaxIndexSlack)

\* the operands of equals: the ramp matrices and their tenths
EqualsOperands ==
  RampMatrices \cup { multiplyScalar(x, Rat(1, 10)).val : x \in RampMatrices }

\* the matrices converted back to arrays: the ramp matrices, those of the
\* scenarios and those built from arrays with NaN or infinite elements
ConvertedMatrices ==
  RampMatrices \cup ScenarioMatrices \cup
  { fromRowMajor(x).val : x \in { y \in NonFiniteArrays :
                                    fromRowMajor(y).kind = "matrix" } }

\* the third argument of equals
PrecisionExponents == {Infinity} \cup { RInt(e) : e \in {-1, 0, 1, 2} }

\* a matrix as the object the type guard is given
AsObject(matrix) ==
  [typeof |-> "object", isNull |-> FALSE, type |-> TYPE_NAME,
   class |-> "Float64Array", value |-> matrix.value,
   rowCount |-> JsNumber(RInt(matrix.rowCount)),
   colCount |-> JsNumber(RInt(matrix.colCount))]

\* the values given to the type guard: the ramp matrices, and each of them
\* with one thing wrong: a buffer one element short or one element long,
\* another tag, a plain array, a count that is no number, is 0, is negative
\* or is NaN; null; a value that is no object
GuardedValues ==
  { AsObject(x) : x \in RampMatrices } \cup
  { [AsObject(x) EXCEPT !.value = Tail(@)] : x \in RampMatrices } \cup
  { [AsObject(x) EXCEPT !.value = @ \o <<Zero>>] : x \in RampMatrices } \cup
  { [AsObject(x) EXCEPT !.type = "f32Matrix"] : x \in RampMatrices } \cup
  { [AsObject(x) EXCEPT !.class = "Array"] : x \in RampMatrices } \cup
  { [AsObject(x) EXCEPT !.rowCount = JsNonNumber("string")] :
      x \in RampMatrices } \cup
  { [AsObject(x) EXCEPT !.colCount = JsNonNumber("undefined")] :
      x \in RampMatrices } \cup
  { [AsObject(x) EXCEPT !.rowCount = JsNumber(Zero)] : x \in RampMatrices } \cup
  { [AsObject(x) EXCEPT !.colCount = JsNumber(RInt(-1))] :
      x \in RampMatrices } \cup
  { [AsObject(x) EXCEPT !.rowCount = JsNumber(NaN)] : x \in RampMatrices } \cup
  { [AsObject(Ramp(1, 1, 0)) EXCEPT !.isNull = TRUE],
    [AsObject(Ramp(1, 1, 0)) EXCEPT !.typeof = "number"] }

(***************************************************************************)
(* State.                                                                  *)
(***************************************************************************)
VARIABLES
  call,    \* the call in progress: the operation and its arguments
  pc,      \* "call": not yet run; "loop": in the pivot loop; "done"
  m,       \* the working matrix of inverse / determinant
  inv,     \* the second working matrix of inverse
  pivot,   \* the loop variable of the pivot loop
  det,     \* the running product of determinant
  res,     \* what the call returned or threw
  heap,    \* the buffers allocated so far; a buffer's address is its index
  written  \* the matrices through which the caller has written, in order

vars == <<call, pc, m, inv, pivot, det, res, heap, written>>

\* Spec passes matrices by value and leaves the storage out
NoStorage == heap = <<>> /\ written = <<>>

\* a working matrix that has not been allocated
Unallocated == [rowCount |-> 0, colCount |-> 0, value |-> <<>>]

\* the calls explored: the operation and its arguments
InitCall ==
  \/ \E o \in {"fromRowMajor", "fromColumnMajor"}, x \in InputArrays :
        call = [op |-> o, array |-> x]
  \/ \E n \in (-1)..MaxSize : call = [op |-> "getIdentity", size |-> n]
  \/ \E v \in GuardedValues : call = [op |-> "isf64Mat", value |-> v]
  \/ \E x \in RampMatrices, y \in RampMatrices :
        call = [op |-> "equalsMatrix", a |-> x, b |-> y]
  \/ \E x \in RampMatrices : call = [op |-> "getClone", a |-> x]
  \/ \E x \in RampMatrices, q \in Scalars :
        call = [op |-> "multiplyScalar", a |-> x, scalar |-> q]
  \/ \E x \in RampMatrices, i \in Indices, j \in Indices :
        call = [op |-> "valueAt", a |-> x, rowIndex |-> i, columnIndex |-> j]
  \/ \E o \in {"add", "subtract", "multiply"},
         x \in RampMatrices, y \in RampMatrices :
        call = [op |-> o, a |-> x, b |-> y]
  \/ \E o \in {"toRowMajorArray", "toRowMajor2dArray"},
         x \in ConvertedMatrices :
        call = [op |-> o, a |-> x]
  \/ \E x \in EqualsOperands, y \in EqualsOperands, e \in PrecisionExponents :
        call = [op |-> "equals", a |-> x, b |-> y, precisionExponent |-> e]
  \/ \E o \in {"inverse", "determinant"}, sh \in Shapes :
        \E buffer \in GridBuffers(sh) :
           call = [op |-> o, a |-> GridMatrix(sh, buffer)]
  \/ \E o \in {"inverse", "determinant"},
         x \in ScenarioMatrices \cup ScaledMatrices :
        call = [op |-> o, a |-> x]

Init ==
  /\ InitCall
  /\ pc = "call"
  /\ m = Unallocated
  /\ inv = Unallocated
  /\ pivot = 0
  /\ det = One
  /\ res = NoResult
  /\ NoStorage

\* a call that runs to its end in one step
Finish(result) ==
  /\ res' = result
  /\ pc' = "done"
  /\ UNCHANGED <<call, m, inv, pivot, det, heap, written>>

FromRowMajor ==
  /\ pc = "call" /\ call.op = "fromRowMajor"
  /\ Finish(fromRowMajor(call.array))

FromColumnMajor ==
  /\ pc = "call" /\ call.op = "fromColumnMajor"
  /\ Finish(fromColumnMajor(call.array))

GetIdentity ==
  /\ pc = "call" /\ call.op = "getIdentity"
  /\ Finish(getIdentity(call.size))

Isf64Mat ==
  /\ pc = "call" /\ call.op = "isf64Mat"
  /\ Finish(ReturnedBoolean(isf64Mat(call.value)))

EqualsMatrix ==
  /\ pc = "call" /\ call.op = "equalsMatrix"
  /\ Finish(ReturnedBoolean(equalsMatrix(call.a, call.b)))

GetClone ==
  /\ pc = "call" /\ call.op = "getClone"
  /\ Finish(Returned(getClone(call.a)))

MultiplyScalar ==
  /\ pc = "call" /\ call.op = "multiplyScalar"
  /\ Finish(multiplyScalar(call.a, call.scalar))

ValueAt ==
  /\ pc = "call" /\ call.op = "valueAt"
  /\ Finish(valueAt(call.a, call.rowIndex, call.columnIndex))

Add ==
  /\ pc = "call" /\ call.op = "add"
  /\ Finish(add(call.a, call.b))

Subtract ==
  /\ pc = "call" /\ call.op = "subtract"
  /\ Finish(subtract(call.a, call.b))

Multiply ==
  /\ pc = "call" /\ call.op = "multiply"
  /\ Finish(multiply(call.a, call.b))

ToRowMajorArray ==
  /\ pc = "call" /\ call.op = "toRowMajorArray"
  /\ Finish(ReturnedArray(toRowMajorArray(call.a)))

ToRowMajor2dArray ==
  /\ pc = "call" /\ call.op = "toRowMajor2dArray"
  /\ Finish(ReturnedArray(toRowMajor2dArray(call.a)))

Equals ==
  /\ pc = "call" /\ call.op = "equals"
  /\ Finish(equals(call.a, call.b, call.precisionExponent))

\* inverse rejecting only the matrices with fewer rows than columns
InverseEnter_TallAccepted ==
  /\ pc = "call" /\ call.op = "inverse"
  /\ IF call.a.rowCount < call.a.colCount
     THEN Finish(ValidationError("notSquare"))
     ELSE /\ m' = getClone(call.a)
          /\ inv' = getIdentity(call.a.colCount).val
          /\ pivot' = 0
          /\ pc' = "loop"
          /\ UNCHANGED <<call, det, res, heap, written>>

\* inverse up to the pivot loop: the square check, the clone, the identity
InverseEnter ==
  /\ pc = "call" /\ call.op = "inverse"
  /\ IF call.a.rowCount # call.a.colCount
     THEN Finish(ValidationError("notSquare"))
     ELSE /\ m' = getClone(call.a)
          /\ inv' = getIdentity(call.a.colCount).val
          /\ pivot' = 0
          /\ pc' = "loop"
          /\ UNCHANGED <<call, det, res, heap, written>>

\* the pivot loop of inverse without its `pivot++`
InversePivot_NoAdvance ==
  /\ pc = "loop" /\ call.op = "inverse"
  /\ pivot < call.a.colCount
  /\ \E step \in {InversePivotStep(m, inv, call.a.colCount, pivot)} :
         IF step.thrown
         THEN /\ res' = SingularMatrixError
              /\ pc' = "done"
              /\ UNCHANGED <<call, m, inv, pivot, det, heap, written>>
         ELSE /\ m' = step.m
              /\ inv' = step.inv
              /\ UNCHANGED <<call, pc, pivot, det, res, heap, written>>

\* one iteration of `for (let pivot = 0; pivot < size; pivot++)` of inverse
InversePivot ==
  /\ pc = "loop" /\ call.op = "inverse"
  /\ pivot < call.a.colCount
  /\ \E step \in {InversePivotStep(m, inv, call.a.colCount, pivot)} :
         IF step.thrown
         THEN /\ res' = SingularMatrixError
              /\ pc' = "done"
              /\ UNCHANGED <<call, m, inv, pivot, det, heap, written>>
         ELSE /\ m' = step.m
              /\ inv' = step.inv
              /\ pivot' = pivot + 1
              /\ UNCHANGED <<call, pc, det, res, heap, written>>

\* `return inv`
InverseReturn ==
  /\ pc = "loop" /\ call.op = "inverse"
  /\ ~(pivot < call.a.colCount)
  /\ res' = Returned(inv)
  /\ pc' = "done"
  /\ UNCHANGED <<call, m, inv, pivot, det, heap, written>>

\* determinant up to the pivot loop
DeterminantEnter ==
  /\ pc = "call" /\ call.op = "determinant"
  /\ IF call.a.rowCount # call.a.colCount
     THEN Finish(ValidationError("notSquare"))
     ELSE /\ m' = getClone(call.a)
          /\ det' = One
          /\ pivot' = 0
          /\ pc' = "loop"
          /\ UNCHANGED <<call, inv, res, heap, written>>

\* one iteration of the pivot loop of determinant
DeterminantPivot ==
  /\ pc = "loop" /\ call.op = "determinant"
  /\ pivot < call.a.rowCount
  /\ \E step \in {DeterminantPivotStep(m, call.a.rowCount, pivot, det)} :
         IF step.returned
         THEN /\ res' = ReturnedNumber(Zero)
              /\ pc' = "done"
              /\ UNCHANGED <<call, m, inv, pivot, det, heap, written>>
         ELSE /\ m' = step.m
              /\ det' = step.det
              /\ pivot' = pivot + 1
              /\ UNCHANGED <<call, pc, inv, res, heap, written>>

\* `return det`
DeterminantReturn ==
  /\ pc = "loop" /\ call.op = "determinant"
  /\ ~(pivot < call.a.rowCount)
  /\ res' = ReturnedNumber(det)
  /\ pc' = "done"
  /\ UNCHANGED <<call, m, inv, pivot, det, heap, written>>

Next ==
  \/ FromRowMajor
  \/ FromColumnMajor
  \/ GetIdentity
  \/ Isf64Mat
  \/ EqualsMatrix
  \/ GetClone
  \/ MultiplyScalar
  \/ ValueAt
  \/ Add
  \/ Subtract
  \/ Multiply
  \/ Equals
  \/ ToRowMajorArray
  \/ ToRowMajor2dArray
  \/ InverseEnter
  \/ InversePivot
  \/ InverseReturn
  \/ DeterminantEnter
  \/ DeterminantPivot
  \/ DeterminantReturn

Spec == Init /\ [][Next]_vars

(***************************************************************************)
(* The calls of inverse and determinant alone, run to their end: the code  *)
(* is synchronous and single-threaded, so a call that can take a step      *)
(* takes it.                                                               *)
(***************************************************************************)
EliminationInit == Init /\ call.op \in {"inverse", "determinant"}

EliminationNext ==
  \/ InverseEnter
  \/ InversePivot
  \/ InverseReturn
  \/ DeterminantEnter
  \/ DeterminantPivot
  \/ DeterminantReturn

\* the position of a call in its code
position == <<pc, pivot>>

\* what every step of EliminationNext does to the position: a call that has
\* not ended enters the loop, goes on to the next pivot or ends
Proceed ==
  /\ pc # "done"
  /\ pc' \in {"loop", "done"}
  /\ pivot' \in {pivot, pivot + 1}

\* a call that has not ended goes on running
EliminationSpec ==
  EliminationInit /\ [][EliminationNext]_vars /\ WF_position(Proceed)

(***************************************************************************)
(* Storage.  StorageSpec runs the calls on matrix objects as the source    *)
(* has them: the value field of a matrix is a reference to a Float64Array, *)
(* here the address of a buffer in heap.  The row operations write into    *)
(* the buffer their argument refers to, and after the call the caller may  *)
(* write into any buffer it holds a reference to.                          *)
(***************************************************************************)
\* the matrix an object stands for, with the contents of its buffer
Deref(h, matrix) ==
  [rowCount |-> matrix.rowCount, colCount |-> matrix.colCount,
   value |-> h[matrix.value]]

\* getClone copying the fields only, the reference to the buffer included
getCloneIn_SharedBuffer(h, matrix) == [heap |-> h, matrix |-> matrix]

\* `{ ...matrix, value: Float64Array.from(matrix.value) }`: the copy of the
\* buffer is a new buffer
getCloneIn(h, matrix) ==
  [heap |-> Append(h, h[matrix.value]),
   matrix |-> [matrix EXCEPT !.value = Len(h) + 1]]

\* the matrices the storage calls are made on
StorageMatrices ==
  { fromRowMajor(IntRows(lit)).val : lit \in
      { << <<4, 7>>, <<2, 6>> >>,
        << <<0, -1>>, <<-1, 0>> >>,
        << <<1, 2>>, <<2, 4>> >>,
        << <<1, 2>> >> } }

StorageOps ==
  {"getClone", "multiplyScalar", "add", "subtract", "multiply",
   "inverse", "determinant"}

\* the value the caller writes; no input holds it
Poked == Rat(1, 3)

\* two matrices in buffers 1 and 2, and a call on them; entry keeps the
\* contents the buffers have when the call is made
StorageInit ==
  /\ \E x \in StorageMatrices, y \in StorageMatrices, o \in StorageOps :
        /\ heap = <<x.value, y.value>>
        /\ call = [op |-> o,
                   a |-> [x EXCEPT !.value = 1],
                   b |-> [y EXCEPT !.value = 2],
                   entry |-> <<x.value, y.value>>]
  /\ pc = "call"
  /\ m = Unallocated
  /\ inv = Unallocated
  /\ pivot = 0
  /\ det = One
  /\ res = NoResult
  /\ written = <<>>

\* the end of a call: `init` puts a returned matrix into a buffer of its own
\* (`new Float64Array(value)`)
StorageFinish(result) ==
  /\ IF result.kind = "matrix"
     THEN /\ heap' = Append(heap, result.val.value)
          /\ res' = Returned([result.val EXCEPT !.value = Len(heap) + 1])
     ELSE /\ heap' = heap
          /\ res' = result
  /\ pc' = "done"
  /\ UNCHANGED <<call, m, inv, pivot, det, written>>

StorageGetClone ==
  /\ pc = "call" /\ call.op = "getClone"
  /\ \E clone \in {getCloneIn(heap, call.a)} :
        /\ heap' = clone.heap
        /\ res' = Returned(clone.matrix)
  /\ pc' = "done"
  /\ UNCHANGED <<call, m, inv, pivot, det, written>>

StorageMultiplyScalar ==
  /\ pc = "call" /\ call.op = "multiplyScalar"
  /\ \E q \in Scalars : StorageFinish(multiplyScalar(Deref(heap, call.a), q))

StorageAdd ==
  /\ pc = "call" /\ call.op = "add"
  /\ StorageFinish(add(Deref(heap, call.a), Deref(heap, call.b)))

StorageSubtract ==
  /\ pc = "call" /\ call.op = "subtract"
  /\ StorageFinish(subtract(Deref(heap, call.a), Deref(heap, call.b)))

StorageMultiply ==
  /\ pc = "call" /\ call.op = "multiply"
  /\ StorageFinish(multiply(Deref(heap, call.a), Deref(heap, call.b)))

\* inverse running its row operations on the argument itself
StorageInverseEnter_NoClone ==
  /\ pc = "call" /\ call.op = "inverse"
  /\ IF call.a.rowCount # call.a.colCount
     THEN StorageFinish(ValidationError("notSquare"))
     ELSE /\ heap' = Append(heap, getIdentity(call.a.colCount).val.value)
          /\ m' = call.a
          /\ inv' = [rowCount |-> call.a.colCount, colCount |-> call.a.colCount,
                     value |-> Len(heap) + 1]
          /\ pivot' = 0
          /\ pc' = "loop"
          /\ UNCHANGED <<call, det, res, written>>

\* `const m = getClone(matrix); const inv = getIdentity(size);`
StorageInverseEnter ==
  /\ pc = "call" /\ call.op = "inverse"
  /\ IF call.a.rowCount # call.a.colCount
     THEN StorageFinish(ValidationError("notSquare"))
     ELSE \E clone \in {getCloneIn(heap, call.a)} :
          /\ heap' = Append(clone.heap, getIdentity(call.a.colCount).val.value)
          /\ m' = clone.matrix
          /\ inv' = [rowCount |-> call.a.colCount, colCount |-> call.a.colCount,
                     value |-> Len(clone.heap) + 1]
          /\ pivot' = 0
          /\ pc' = "loop"
          /\ UNCHANGED <<call, det, res, written>>

\* one iteration of the pivot loop of inverse: swapRows, scaleRow and
\* subtractScaledRow write into the buffers of m and inv
StorageInversePivot ==
  /\ pc = "loop" /\ call.op = "inverse"
  /\ pivot < call.a.colCount
  /\ \E step \in {InversePivotStep(Deref(heap, m), Deref(heap, inv),
                                   call.a.colCount, pivot)} :
         IF step.thrown
         THEN /\ res' = SingularMatrixError
              /\ pc' = "done"
              /\ UNCHANGED <<call, m, inv, pivot, det, heap, written>>
         ELSE /\ heap' = [heap EXCEPT ![m.value] = step.m.value,
                                      ![inv.value] = step.inv.value]
              /\ pivot' = pivot + 1
              /\ UNCHANGED <<call, pc, m, inv, det, res, written>>

\* `return inv`: the object itself, no copy
StorageInverseReturn ==
  /\ pc = "loop" /\ call.op = "inverse"
  /\ ~(pivot < call.a.colCount)
  /\ res' = Returned(inv)
  /\ pc' = "done"
  /\ UNCHANGED <<call, m, inv, pivot, det, heap, written>>

\* `const m = getClone(matrix); let det = 1.0;`
StorageDeterminantEnter ==
  /\ pc = "call" /\ call.op = "determinant"
  /\ IF call.a.rowCount # call.a.colCount
     THEN StorageFinish(ValidationError("notSquare"))
     ELSE \E clone \in {getCloneIn(heap, call.a)} :
          /\ heap' = clone.heap
          /\ m' = clone.matrix
          /\ det' = One
          /\ pivot' = 0
          /\ pc' = "loop"
          /\ UNCHANGED <<call, inv, res, written>>

StorageDeterminantPivot ==
  /\ pc = "loop" /\ call.op = "determinant"
  /\ pivot < call.a.rowCount
  /\ \E step \in {DeterminantPivotStep(Deref(heap, m), call.a.rowCount,
                                       pivot, det)} :
         IF step.returned
         THEN /\ res' = ReturnedNumber(Zero)
              /\ pc' = "done"
              /\ UNCHANGED <<call, m, inv, pivot, det, heap, written>>
         ELSE /\ heap' = [heap EXCEPT ![m.value] = step.m.value]
              /\ det' = step.det
              /\ pivot' = pivot + 1
              /\ UNCHANGED <<call, pc, m, inv, res, written>>

StorageDeterminantReturn ==
  /\ pc = "loop" /\ call.op = "determinant"
  /\ ~(pivot < call.a.rowCount)
  /\ res' = ReturnedNumber(det)
  /\ pc' = "done"
  /\ UNCHANGED <<call, m, inv, pivot, det, heap, written>>

\* the matrix objects the caller holds after the call, by name
Held ==
  {"a", "b"} \cup (IF res.kind = "matrix" THEN {"res"} ELSE {})

HeldMatrix(name) ==
  CASE name = "a" -> call.a
    [] name = "b" -> call.b
    [] name = "res" -> res.val

\* the caller's `matrix.value[i] = x` on a matrix it holds
CallerWrite ==
  /\ pc = "done" /\ Len(written) < MaxWrites
  /\ \E name \in Held :
        \E i \in 1..Len(heap[HeldMatrix(name).value]) :
           /\ heap' = [heap EXCEPT ![HeldMatrix(name).value][i] = Poked]
           /\ written' = Append(written, name)
  /\ UNCHANGED <<call, pc, m, inv, pivot, det, res>>

StorageNext ==
  \/ StorageGetClone
  \/ StorageMultiplyScalar
  \/ StorageAdd
  \/ StorageSubtract
  \/ StorageMultiply
  \/ StorageInverseEnter
  \/ StorageInversePivot
  \/ StorageInverseReturn
  \/ StorageDeterminantEnter
  \/ StorageDeterminantPivot
  \/ StorageDeterminantReturn
  \/ CallerWrite

StorageSpec == StorageInit /\ [][StorageNext]_vars

(***************************************************************************)
(* The fixed 4x4 transform layer (mat4).  Its matrices are built with      *)
(* init, which copies the array it is given and validates nothing.         *)
(***************************************************************************)
\* x / y; 0 / 0 is NaN
RDiv(x, y) == IF x = Zero /\ y = Zero THEN NaN ELSE RMul(x, RInv(y))

\* Math.sqrt on the squares of rationals
Sqrt(q) ==
  LET root(n) == CHOOSE r \in 0..n : r * r = n
  IN  IF IsNaN(q) THEN NaN ELSE <<root(q[1]), root(q[2])>>

\* An angle is written as t = tan(rad / 2), so that its cosine and sine are
\* the rationals (1 - t^2) / (1 + t^2) and 2t / (1 + t^2).
Cos(rad) ==
  RDiv(RSub(One, RMul(rad, rad)), RAdd(One, RMul(rad, rad)))

Sin(rad) == RDiv(RMul(RInt(2), rad), RAdd(One, RMul(rad, rad)))

\* Math.tan(rad / 2)
TanOfHalf(rad) == rad

mat4_fromRowMajor(rowMajor) ==
  IF ~is2dNumberArray(rowMajor)
  THEN ValidationError("not2dNumberArray")
  ELSE IF ~(\A r \in 1..Len(rowMajor) : Len(rowMajor[r]) = Len(rowMajor[1]))
  THEN ValidationError("columnsHaveDifferentRowCounts")
  ELSE LET rowCount == Len(rowMajor)
           colCount == Len(rowMajor[1])
       IN  IF rowCount # 4 \/ colCount # 4
           THEN ValidationError("sizeMismatch")
           ELSE Returned(init([i \in 1..(rowCount * colCount) |->
                                 rowMajor[((i - 1) % rowCount) + 1]
                                         [((i - 1) \div rowCount) + 1].num],
                              4, 4))

mat4_getIdentity ==
  init([i \in 1..16 |-> IF (i - 1) \in {0, 5, 10, 15} THEN One ELSE Zero], 4, 4)

mat4_add(a, b) ==
  LET x == a.value
      y == b.value
  IN  init([i \in 1..16 |-> RAdd(Elem(x, i - 1), Elem(y, i - 1))], 4, 4)

mat4_subtract(a, b) ==
  LET x == a.value
      y == b.value
  IN  init([i \in 1..16 |-> RSub(Elem(x, i - 1), Elem(y, i - 1))], 4, 4)

mat4_multiplyScalar(matrix, scalar) ==
  LET x == matrix.value
  IN  init([i \in 1..16 |-> RMul(Elem(x, i - 1), scalar)], 4, 4)

\* the inner loop of mat4.multiply: sum += x[row + k * 4] * y[k + col * 4]
RECURSIVE Mat4MultiplySum(_, _, _, _, _, _)
Mat4MultiplySum(x, y, row, col, k, sum) ==
  IF k >= 4
  THEN sum
  ELSE Mat4MultiplySum(x, y, row, col, k + 1,
         RAdd(sum, RMul(Elem(x, row + k * 4), Elem(y, k + col * 4))))

\* mat4.multiply reading its left operand row by row: x[k + row * 4]
mat4_multiply_RowMajorLeft(a, b) ==
  LET x == [i \in 1..16 |-> Elem(a.value, ((i - 1) % 4) * 4 + ((i - 1) \div 4))]
      y == b.value
  IN  init([i \in 1..16 |->
              Mat4MultiplySum(x, y, (i - 1) % 4, (i - 1) \div 4, 0, Zero)],
           4, 4)

mat4_multiply(a, b) ==
  LET x == a.value
      y == b.value
  IN  init([i \in 1..16 |->
              Mat4MultiplySum(x, y, (i - 1) % 4, (i - 1) \div 4, 0, Zero)],
           4, 4)

getTranslation(x, y, z) ==
  init(<<One, Zero, Zero, Zero, Zero, One, Zero, Zero,
         Zero, Zero, One, Zero, x, y, z, One>>, 4, 4)

getRotateX(rad) ==
  LET cos == Cos(rad)
      sin == Sin(rad)
  IN  init(<<One, Zero, Zero, Zero, Zero, cos, RNeg(sin), Zero,
             Zero, sin, cos, Zero, Zero, Zero, Zero, One>>, 4, 4)

getRotateY(rad) ==
  LET cos == Cos(rad)
      sin == Sin(rad)
  IN  init(<<cos, Zero, sin, Zero, Zero, One, Zero, Zero,
             RNeg(sin), Zero, cos, Zero, Zero, Zero, Zero, One>>, 4, 4)

\* built from its rows by mat4's fromRowMajor
getRotateZ(rad) ==
  LET cos == Cos(rad)
      sin == Sin(rad)
  IN  mat4_fromRowMajor(RatRows(<< <<cos, RNeg(sin), Zero, Zero>>,
                                   <<sin, cos, Zero, Zero>>,
                                   <<Zero, Zero, One, Zero>>,
                                   <<Zero, Zero, Zero, One>> >>))

\* the array handed to init has thirteen elements: the three rotated
\* columns, each closed by a 0, and one more 0
getRotate(rad, axis) ==
  LET cos == Cos(rad)
      sin == Sin(rad)
      x == axis[1]
      y == axis[2]
      z == axis[3]
      xx == RMul(x, x)
      yy == RMul(y, y)
      zz == RMul(z, z)
      xy == RMul(x, y)
      yz == RMul(y, z)
      zx == RMul(z, x)
      oneMinusCos == RSub(One, cos)
  IN  init(<<RAdd(RMul(xx, oneMinusCos), cos),
             RAdd(RMul(xy, oneMinusCos), RMul(z, sin)),
             RSub(RMul(zx, oneMinusCos), RMul(y, sin)),
             Zero,
             RSub(RMul(xy, oneMinusCos), RMul(z, sin)),
             RAdd(RMul(yy, oneMinusCos), cos),
             RAdd(RMul(yz, oneMinusCos), RMul(x, sin)),
             Zero,
             RAdd(RMul(zx, oneMinusCos), RMul(y, sin)),
             RSub(RMul(yz, oneMinusCos), RMul(x, sin)),
             RAdd(RMul(zz, oneMinusCos), cos),
             Zero,
             Zero>>, 4, 4)

getScale(x, y, z) ==
  init(<<x, Zero, Zero, Zero, Zero, y, Zero, Zero,
         Zero, Zero, z, Zero, Zero, Zero, Zero, One>>, 4, 4)

\* a[1]*b[1] + a[2]*b[2] + a[3]*b[3], summed from the left
Dot3(a, b) ==
  RAdd(RAdd(RMul(a[1], b[1]), RMul(a[2], b[2])), RMul(a[3], b[3]))

\* the cross product a x b as getLookAt writes it out
Cross3(a, b) ==
  <<RSub(RMul(a[2], b[3]), RMul(a[3], b[2])),
    RSub(RMul(a[3], b[1]), RMul(a[1], b[3])),
    RSub(RMul(a[1], b[2]), RMul(a[2], b[1]))>>

getLookAt(eye, target, up) ==
  LET \* v[i] /= len for each component
      Over3(v, len) == <<RDiv(v[1], len), RDiv(v[2], len), RDiv(v[3], len)>>
      z0 == <<RSub(eye[1], target[1]), RSub(eye[2], target[2]),
              RSub(eye[3], target[3])>>
      zLen == Sqrt(Dot3(z0, z0))
      z == Over3(z0, zLen)
      x0 == Cross3(up, z)
      xLen == Sqrt(Dot3(x0, x0))
      x == Over3(x0, xLen)
      y == Cross3(z, x)
  IN  init(<<x[1], y[1], z[1], Zero,
             x[2], y[2], z[2], Zero,
             x[3], y[3], z[3], Zero,
             RNeg(Dot3(x, eye)), RNeg(Dot3(y, eye)), RNeg(Dot3(z, eye)),
             One>>, 4, 4)

getPerspective(fovY, aspect, near, far) ==
  LET f == RDiv(One, TanOfHalf(fovY))
      nf == RDiv(One, RSub(near, far))
  IN  init(<<RDiv(f, aspect), Zero, Zero, Zero,
             Zero, f, Zero, Zero,
             Zero, Zero, RMul(RAdd(far, near), nf), RNeg(One),
             Zero, Zero, RMul(RMul(RMul(RInt(2), far), near), nf), Zero>>,
           4, 4)

\* the arguments of the builders
Coordinates == { RInt(-1), Zero, RInt(2) }

\* 0, pi/2, -pi/2 and the angles of the 3-4-5 triangle
Angles == { Zero, One, RInt(-1), Rat(1, 2), Rat(1, 3) }

\* the coordinate axes, two oblique unit vectors and the zero vector
Axes ==
  { <<One, Zero, Zero>>, <<Zero, One, Zero>>, <<Zero, Zero, One>>,
    <<Zero, Rat(3, 5), Rat(4, 5)>>,
    <<Rat(2, 3), Rat(2, 3), Rat(1, 3)>>, <<Zero, Zero, Zero>> }

\* eye, target, up: two ordinary views, eye = target, and up along the view
Views ==
  { <<<<Zero, Zero, One>>, <<Zero, Zero, Zero>>, <<Zero, One, Zero>>>>,
    <<<<RInt(3), RInt(4), Zero>>, <<Zero, Zero, Zero>>, <<Zero, Zero, One>>>>,
    <<<<One, Zero, Zero>>, <<One, Zero, Zero>>, <<Zero, One, Zero>>>>,
    <<<<Zero, Zero, One>>, <<Zero, Zero, Zero>>, <<Zero, Zero, One>>>> }

\* fovY, aspect, near, far with fovY # 0, aspect # 0 and near # far
Frustums ==
  { <<fovY, aspect, One, far>> :
      fovY \in {One, Rat(1, 2)}, aspect \in {One, RInt(2)},
      far \in {RInt(2), RInt(101)} }

\* the arrays given to mat4's fromRowMajor
Mat4Arrays ==
  { [r \in 1..4 |-> [c \in 1..4 |->
       JsNumber(RInt(RampValue(seed, (r - 1) * 4 + c - 1)))]] :
       seed \in 0..MaxSeed } \cup RampArrays \cup DegenerateArrays

\* values of type Mat4 a caller holds: built from rows or by a builder
Mat4Operands ==
  { Ramp(4, 4, seed) : seed \in 0..MaxSeed } \cup
  { getTranslation(One, RInt(2), RInt(3)), getRotateX(Rat(1, 3)),
    getRotate(One, <<Zero, Zero, One>>) }

Mat4Init ==
  /\ \/ call = [op |-> "mat4.getIdentity"]
     \/ \E x \in Mat4Arrays : call = [op |-> "mat4.fromRowMajor", array |-> x]
     \/ \E o \in {"mat4.getTranslation", "mat4.getScale"},
            x \in Coordinates, y \in Coordinates, z \in Coordinates :
           call = [op |-> o, x |-> x, y |-> y, z |-> z]
     \/ \E o \in {"mat4.getRotateX", "mat4.getRotateY", "mat4.getRotateZ"},
            rad \in Angles :
           call = [op |-> o, rad |-> rad]
     \/ \E rad \in Angles, axis \in Axes :
           call = [op |-> "mat4.getRotate", rad |-> rad, axis |-> axis]
     \/ \E v \in Views :
           call = [op |-> "mat4.getLookAt", eye |-> v[1], target |-> v[2],
                   up |-> v[3]]
     \/ \E f \in Frustums :
           call = [op |-> "mat4.getPerspective", fovY |-> f[1], aspect |-> f[2],
                   near |-> f[3], far |-> f[4]]
     \/ \E o \in {"mat4.add", "mat4.subtract", "mat4.multiply"},
            x \in Mat4Operands, y \in Mat4Operands :
           call = [op |-> o, a |-> x, b |-> y]
     \/ \E x \in Mat4Operands, q \in Scalars :
           call = [op |-> "mat4.multiplyScalar", a |-> x, scalar |-> q]
  /\ pc = "call"
  /\ m = Unallocated
  /\ inv = Unallocated
  /\ pivot = 0
  /\ det = One
  /\ res = NoResult
  /\ NoStorage

Mat4FromRowMajor ==
  /\ pc = "call" /\ call.op = "mat4.fromRowMajor"
  /\ Finish(mat4_fromRowMajor(call.array))

Mat4GetIdentity ==
  /\ pc = "call" /\ call.op = "mat4.getIdentity"
  /\ Finish(Returned(mat4_getIdentity))

Mat4Add ==
  /\ pc = "call" /\ call.op = "mat4.add"
  /\ Finish(Returned(mat4_add(call.a, call.b)))

Mat4Subtract ==
  /\ pc = "call" /\ call.op = "mat4.subtract"
  /\ Finish(Returned(mat4_subtract(call.a, call.b)))

Mat4MultiplyScalar ==
  /\ pc = "call" /\ call.op = "mat4.multiplyScalar"
  /\ Finish(Returned(mat4_multiplyScalar(call.a, call.scalar)))

Mat4Multiply ==
  /\ pc = "call" /\ call.op = "mat4.multiply"
  /\ Finish(Returned(mat4_multiply(call.a, call.b)))

GetTranslation ==
  /\ pc = "call" /\ call.op = "mat4.getTranslation"
  /\ Finish(Returned(getTranslation(call.x, call.y, call.z)))

GetRotateX ==
  /\ pc = "call" /\ call.op = "mat4.getRotateX"
  /\ Finish(Returned(getRotateX(call.rad)))

GetRotateY ==
  /\ pc = "call" /\ call.op = "mat4.getRotateY"
  /\ Finish(Returned(getRotateY(call.rad)))

GetRotateZ ==
  /\ pc = "call" /\ call.op = "mat4.getRotateZ"
  /\ Finish(getRotateZ(call.rad))

GetRotate ==
  /\ pc = "call" /\ call.op = "mat4.getRotate"
  /\ Finish(Returned(getRotate(call.rad, call.axis)))

GetScale ==
  /\ pc = "call" /\ call.op = "mat4.getScale"
  /\ Finish(Returned(getScale(call.x, call.y, call.z)))

GetLookAt ==
  /\ pc = "call" /\ call.op = "mat4.getLookAt"
  /\ Finish(Returned(getLookAt(call.eye, call.target, call.up)))

GetPerspective ==
  /\ pc = "call" /\ call.op = "mat4.getPerspective"
  /\ Finish(Returned(getPerspective(call.fovY, call.aspect, call.near,
                                    call.far)))

Mat4Next ==
  \/ Mat4FromRowMajor
  \/ Mat4GetIdentity
  \/ Mat4Add
  \/ Mat4Subtract
  \/ Mat4MultiplyScalar
  \/ Mat4Multiply
  \/ GetTranslation
  \/ GetRotateX
  \/ GetRotateY
  \/ GetRotateZ
  \/ GetRotate
  \/ GetScale
  \/ GetLookAt
  \/ GetPerspective

Mat4Spec == Mat4Init /\ [][Mat4Next]_vars

(***************************************************************************)
(* The mutable DynamicMatrix class.  An instance refers to its array, here *)
(* by the address of the array in heap; multiplyScalar replaces the array  *)
(* of its instance by a new one.                                           *)
(***************************************************************************)
\* `new DynamicMatrix(columnMajor)`: the counts are read off the first inner
\* array and the outer array, the array is the inner arrays flattened
DynamicMatrixNew(columnMajor) ==
  IF ~is2dNumberArray(columnMajor)
  THEN [kind |-> "error",
        val |-> [name |-> "Error", reason |-> "Matrix must be a 2D array"]]
  ELSE LET flat == Flat(columnMajor)
       IN  Returned([rowCount |-> Len(columnMajor[1]),
                     colCount |-> Len(columnMajor),
                     value |-> [i \in 1..Len(flat) |-> flat[i].num]])

\* the method getAt: the column index comes first
DynamicMatrix_getAt(matrix, columnIndex, rowIndex) ==
  IF columnIndex < 0 \/ columnIndex >= matrix.colCount
  THEN [kind |-> "error",
        val |-> [name |-> "RangeError", reason |-> "outOfBounds"]]
  ELSE IF rowIndex < 0 \/ rowIndex >= matrix.rowCount
  THEN [kind |-> "error",
        val |-> [name |-> "RangeError", reason |-> "outOfBounds"]]
  ELSE ReturnedNumber(Elem(matrix.value,
                           columnIndex * matrix.rowCount + rowIndex))

DynamicMatrix_sameSize(a, b) ==
  a.rowCount = b.rowCount /\ a.colCount = b.colCount

\* generateClone: initValue starts as [[]], receives one array per column
\* and goes to the constructor
generateClone(matrix) ==
  LET initValue ==
        << <<>> >> \o
        [col \in 1..matrix.colCount |->
           [row \in 1..matrix.rowCount |->
              JsNumber(DynamicMatrix_getAt(matrix, col - 1, row - 1).val)]]
  IN  DynamicMatrixNew(initValue)

\* an instance built from the columns of a ramp matrix, its array at
\* address 1, and the scalar its clone will be multiplied by; entry keeps
\* the contents of the array
CloneInit ==
  /\ \E x \in RampArrays, q \in Scalars :
        \E made \in {DynamicMatrixNew(x).val} :
           /\ heap = <<made.value>>
           /\ call = [op |-> "generateClone",
                      a |-> [made EXCEPT !.value = 1],
                      scalar |-> q,
                      entry |-> made.value]
  /\ pc = "call"
  /\ m = Unallocated
  /\ inv = Unallocated
  /\ pivot = 0
  /\ det = One
  /\ res = NoResult
  /\ written = <<>>

\* `const clone = a.generateClone()`
GenerateClone ==
  /\ pc = "call" /\ call.op = "generateClone"
  /\ \E result \in {generateClone(Deref(heap, call.a))} :
        IF result.kind = "error"
        THEN /\ res' = result
             /\ pc' = "done"
             /\ UNCHANGED heap
        ELSE /\ heap' = Append(heap, result.val.value)
             /\ res' = Returned([result.val EXCEPT !.value = Len(heap) + 1])
             /\ pc' = "cloned"
  /\ UNCHANGED <<call, m, inv, pivot, det, written>>

\* `clone.multiplyScalar(scalar)`: this.value = this.value.map(...)
CloneMultiplyScalar ==
  /\ pc = "cloned" /\ call.op = "generateClone"
  /\ heap' = Append(heap, [i \in 1..Len(heap[res.val.value]) |->
                             RMul(heap[res.val.value][i], call.scalar)])
  /\ res' = Returned([res.val EXCEPT !.value = Len(heap) + 1])
  /\ pc' = "done"
  /\ UNCHANGED <<call, m, inv, pivot, det, written>>

CloneNext ==
  \/ GenerateClone
  \/ CloneMultiplyScalar

CloneSpec == CloneInit /\ [][CloneNext]_vars

(***************************************************************************)
(* Properties.                                                             *)
(***************************************************************************)
Done(operation) == pc = "done" /\ call.op = operation

\* the element at (row, col), both 0-based, of a matrix
At(matrix, row, col) == matrix.value[col * matrix.rowCount + row + 1]

IsSquare(matrix) == matrix.rowCount = matrix.colCount

\* every element of the input array is a number
AllNumbers(array) ==
  \A r \in 1..Len(array) : \A c \in 1..Len(array[r]) :
     array[r][c].type = "number"

\* C1: every matrix a core operation returns (fromRowMajor, fromColumnMajor,
\* getIdentity, add, subtract, multiplyScalar, multiply, getClone, inverse)
\* has a buffer of exactly rowCount * colCount elements.
C1_ShapeInvariant ==
  (pc = "done" /\ res.kind = "matrix") =>
     Len(res.val.value) = res.val.rowCount * res.val.colCount

\* a product whose shape is neither operand's shape has been returned
C1_Witness ==
  /\ Done("multiply") /\ res.kind = "matrix"
  /\ res.val.rowCount # res.val.colCount
  /\ call.a.colCount # res.val.colCount
  /\ Len(res.val.value) = res.val.rowCount * res.val.colCount

\* C2: for a rectangular input of R >= 1 rows and C >= 1 columns,
\* fromRowMajor returns rowCount = R, colCount = C and
\* value[c * R + r] = rows[r][c] for all r, c.
C2_FromRowMajorTransposes ==
  (/\ Done("fromRowMajor")
   /\ Len(call.array) >= 1 /\ Len(call.array[1]) >= 1
   /\ AllNumbers(call.array)
   /\ \A r \in 1..Len(call.array) : Len(call.array[r]) = Len(call.array[1]))
  => /\ res.kind = "matrix"
     /\ res.val.rowCount = Len(call.array)
     /\ res.val.colCount = Len(call.array[1])
     /\ \A r \in 0..(Len(call.array) - 1) :
          \A c \in 0..(Len(call.array[1]) - 1) :
             res.val.value[c * Len(call.array) + r + 1]
                = call.array[r + 1][c + 1].num

\* a 2 x 2 input whose off-diagonal entries differ has been converted
C2_Witness ==
  /\ Done("fromRowMajor") /\ res.kind = "matrix"
  /\ Len(call.array) = 2 /\ Len(call.array[1]) = 2
  /\ call.array[1][2] # call.array[2][1]
  /\ res.val.value[2] = call.array[2][1].num

\* the sum over k < n of a[row,k] * b[k,col]
RECURSIVE SumOfProducts(_, _, _, _, _)
SumOfProducts(a, b, row, col, n) ==
  IF n = 0
  THEN Zero
  ELSE RAdd(SumOfProducts(a, b, row, col, n - 1),
            RMul(At(a, row, n - 1), At(b, n - 1, col)))

\* C3: multiply(a, b) fails when a.colCount # b.rowCount; otherwise the
\* result is a.rowCount x b.colCount and its element at (row, col), stored
\* at value[col * a.rowCount + row], is the sum over k of a[row,k] * b[k,col].
C3_MultiplyIsMatrixProduct ==
  Done("multiply") =>
    IF call.a.colCount # call.b.rowCount
    THEN res.kind = "error"
    ELSE /\ res.kind = "matrix"
         /\ res.val.rowCount = call.a.rowCount
         /\ res.val.colCount = call.b.colCount
         /\ \A row \in 0..(call.a.rowCount - 1) :
              \A col \in 0..(call.b.colCount - 1) :
                 Elem(res.val.value, col * call.a.rowCount + row)
                    = SumOfProducts(call.a, call.b, row, col, call.a.colCount)

\* a product with two terms per element and a non-zero element was returned
C3_Witness ==
  /\ Done("multiply") /\ res.kind = "matrix"
  /\ call.a.colCount = 2 /\ call.a.rowCount = 2 /\ call.b.colCount = 1
  /\ res.val.value[1] # Zero
  /\ res.val.value[1] # RMul(At(call.a, 0, 0), At(call.b, 0, 0))

\* the matrix without row 0 and without column col
Minor(matrix, col) ==
  LET n == matrix.rowCount - 1
  IN  [rowCount |-> n, colCount |-> n,
       value |-> [i \in 1..(n * n) |->
          LET r == (i - 1) % n
              c == (i - 1) \div n
          IN  At(matrix, r + 1, IF c < col THEN c ELSE c + 1)]]

\* the determinant of a square matrix by cofactor expansion along row 0
RECURSIVE Cofactors(_, _)
ExactDeterminant(matrix) ==
  IF matrix.rowCount = 1 THEN At(matrix, 0, 0) ELSE Cofactors(matrix, 0)
Cofactors(matrix, col) ==
  IF col >= matrix.colCount
  THEN Zero
  ELSE RAdd(RMul(RMul(IF col % 2 = 0 THEN One ELSE RInt(-1), At(matrix, 0, col)),
                 ExactDeterminant(Minor(matrix, col))),
            Cofactors(matrix, col + 1))

IsIntegerMatrix(matrix) ==
  \A i \in 1..Len(matrix.value) : matrix.value[i][2] = 1

\* C4 (as claimed): whenever inverse(m) returns, every element of
\* multiply(m, inverse(m)) is within 1e-3 of the identity's element (the
\* widest tolerance the claim allows; under exact arithmetic it claims
\* equality).
C4_InverseLaw ==
  (Done("inverse") /\ res.kind = "matrix") =>
     LET product == multiply(call.a, res.val).val
         identity == getIdentity(call.a.colCount).val
     IN  \A i \in 1..Len(identity.value) :
            BelowInverseOf(RSub(product.value[i], identity.value[i]), 1000)

\* the maximum absolute value of column p of the working matrix over the
\* rows p .. size-1 is below 1e-6
PivotColumnBelowThreshold(matrix, p) ==
  \A i \in p..(matrix.rowCount - 1) :
     BelowInverseOf(At(matrix, i, p), InverseSingularK)

\* C5 (as claimed): inverse on a square matrix fails with the singular-matrix
\* error exactly when at some pivot column the largest absolute value among
\* the rows from the pivot row down is below 1e-6, and it fails for every
\* exactly singular matrix.
C5_InverseFailsOnSingular ==
  (Done("inverse") /\ IsSquare(call.a)) =>
     /\ (res = SingularMatrixError) <=>
           (pivot < call.a.colCount /\ PivotColumnBelowThreshold(m, pivot))
     /\ (ExactDeterminant(call.a) = Zero) => (res = SingularMatrixError)

\* C6: for every square matrix of integers, determinant returns the
\* mathematical determinant (cofactor expansion); the determinant of an
\* identity matrix is 1 and that of a 1 x 1 matrix is its entry.
C6_DeterminantIsExact ==
  (Done("determinant") /\ IsSquare(call.a) /\ IsIntegerMatrix(call.a)) =>
     /\ res = ReturnedNumber(ExactDeterminant(call.a))
     /\ (call.a = getIdentity(call.a.rowCount).val) => res = ReturnedNumber(One)
     /\ (call.a.rowCount = 1) => res = ReturnedNumber(call.a.value[1])

\* the determinant of a matrix whose first pivot is 0 was computed after a
\* row swap, and is not 0
C6_Witness ==
  /\ Done("determinant") /\ IsSquare(call.a) /\ IsIntegerMatrix(call.a)
  /\ call.a.rowCount >= 2
  /\ At(call.a, 0, 0) = Zero
  /\ res.kind = "number" /\ res.val # Zero
  /\ res.val = ExactDeterminant(call.a)

\* C7 (as claimed): for every square matrix with a linearly dependent row
\* (a singular matrix), determinant returns exactly 0.
C7_SingularDeterminantIsZero ==
  (Done("determinant") /\ IsSquare(call.a)
     /\ ExactDeterminant(call.a) = Zero) =>
     res = ReturnedNumber(Zero)

\* C8: inverse and determinant fail for every matrix with
\* rowCount # colCount, before the working copy is made and before the
\* pivot loop is entered.
C8_NonSquareRejectedFirst ==
  (call.op \in {"inverse", "determinant"} /\ ~IsSquare(call.a)) =>
     /\ pc # "loop"
     /\ m = Unallocated /\ inv = Unallocated /\ pivot = 0 /\ det = One
     /\ pc = "done" => res = ValidationError("notSquare")

\* inverse has thrown on a matrix with more rows than columns
C8_Witness ==
  /\ Done("inverse")
  /\ call.a.rowCount > call.a.colCount
  /\ res = ValidationError("notSquare")
  /\ m = Unallocated

\* C9: valueAt returns value[colIndex * rowCount + rowIndex] when
\* 0 <= rowIndex < rowCount and 0 <= colIndex < colCount and fails for
\* every other index pair.
C9_ValueAtChecksBounds ==
  Done("valueAt") =>
    IF /\ 0 <= call.rowIndex /\ call.rowIndex < call.a.rowCount
       /\ 0 <= call.columnIndex /\ call.columnIndex < call.a.colCount
    THEN res = ReturnedNumber(
                 call.a.value[call.columnIndex * call.a.rowCount
                                + call.rowIndex + 1])
    ELSE res.kind = "error"

\* valueAt has thrown for a row index that is out of range while the buffer
\* index computed from it is inside the buffer
C9_Witness ==
  /\ Done("valueAt") /\ res.kind = "error"
  /\ call.rowIndex = -1 /\ call.columnIndex = 1
  /\ call.a.colCount = 2 /\ call.a.rowCount = 2

\* C10: add and subtract fail when the operands differ in rowCount or
\* colCount; otherwise the result has the shape of a and its i-th element
\* is a.value[i] + b.value[i] (a.value[i] - b.value[i]).
C10_AddSubtractElementwise ==
  (Done("add") \/ Done("subtract")) =>
    IF call.a.rowCount # call.b.rowCount \/ call.a.colCount # call.b.colCount
    THEN res.kind = "error"
    ELSE /\ res.kind = "matrix"
         /\ res.val.rowCount = call.a.rowCount
         /\ res.val.colCount = call.a.colCount
         /\ Len(res.val.value) = Len(call.a.value)
         /\ \A i \in 1..Len(call.a.value) :
              res.val.value[i] =
                 IF call.op = "add"
                 THEN RAdd(call.a.value[i], call.b.value[i])
                 ELSE RSub(call.a.value[i], call.b.value[i])

\* subtract has returned a difference that is not the sum
C10_Witness ==
  /\ Done("subtract") /\ res.kind = "matrix"
  /\ Len(res.val.value) = 4
  /\ res.val.value[1] # RAdd(call.a.value[1], call.b.value[1])
  /\ call.a # call.b

\* C11: getIdentity(size) fails for every size <= 0, 0 included; for every
\* integer size > 0 it returns a size x size matrix whose element at (i, j)
\* is 1 when i = j and 0 otherwise.
C11_IdentityOrInvalidSize ==
  Done("getIdentity") =>
    IF call.size <= 0
    THEN res = ValidationError("invalidSize")
    ELSE /\ res.kind = "matrix"
         /\ res.val.rowCount = call.size /\ res.val.colCount = call.size
         /\ Len(res.val.value) = call.size * call.size
         /\ \A i \in 0..(call.size - 1) : \A j \in 0..(call.size - 1) :
              At(res.val, i, j) = IF i = j THEN One ELSE Zero

\* an identity with off-diagonal elements has been returned
C11_Witness ==
  /\ Done("getIdentity") /\ call.size >= 2
  /\ res.kind = "matrix"
  /\ At(res.val, 0, 0) = One /\ At(res.val, 1, 0) = Zero

\* the caller has written through the matrix of that name
WrittenThrough(name) == \E k \in 1..Len(written) : written[k] = name

\* C12: getClone(m) returns a matrix with the rowCount, colCount and element
\* values of m whose buffer shares no storage with m: whatever the caller
\* writes into the clone's buffer, m's elements stay as they were, and
\* whatever it writes into m's buffer, the clone's elements stay as they
\* were.
C12_CloneSharesNoStorage ==
  Done("getClone") =>
     /\ res.kind = "matrix"
     /\ res.val.rowCount = call.a.rowCount
     /\ res.val.colCount = call.a.colCount
     /\ ~WrittenThrough("a") => heap[call.a.value] = call.entry[call.a.value]
     /\ ~WrittenThrough("res") => heap[res.val.value] = call.entry[call.a.value]

\* the caller has written twice into the clone, and the original still has
\* the elements the clone no longer has
C12_Witness ==
  /\ Done("getClone") /\ res.kind = "matrix"
  /\ written = <<"res", "res">>
  /\ heap[res.val.value] # call.entry[call.a.value]
  /\ heap[call.a.value] = call.entry[call.a.value]

\* the arguments of the call in progress
Inputs == IF call.op \in {"add", "subtract", "multiply"}
          THEN {call.a, call.b} ELSE {call.a}

\* C13: add, subtract, multiplyScalar, multiply, inverse and determinant
\* never modify the buffer, rowCount or colCount of an input matrix, whether
\* the call returns or fails; the buffer of a returned matrix is none of the
\* input buffers; inverse and determinant do their row operations on
\* working copies allocated inside the call.
C13_InputsUntouched ==
  (call.op \in StorageOps \ {"getClone"} /\ written = <<>>) =>
     /\ \A k \in 1..Len(call.entry) : heap[k] = call.entry[k]
     /\ (pc = "done" /\ res.kind = "matrix") =>
          \A x \in Inputs : res.val.value # x.value
     /\ pc = "loop" =>
          /\ m.value \notin 1..Len(call.entry)
          /\ m.rowCount = call.a.rowCount /\ m.colCount = call.a.colCount
          /\ call.op = "inverse" =>
               inv.value \notin (1..Len(call.entry)) \cup {m.value}

\* inverse has returned after row operations that changed its working copy,
\* which is not the buffer of its argument
C13_Witness ==
  /\ Done("inverse") /\ res.kind = "matrix" /\ written = <<>>
  /\ heap[m.value] # call.entry[call.a.value]
  /\ heap[call.a.value] = call.entry[call.a.value]
  /\ m.value # call.a.value
  /\ res.val.value = inv.value

\* |x| < 10^(-e), by the numerator and denominator of x
WithinPowerOfTen(x, e) ==
  IF e >= 0
  THEN Abs(x[1]) * Pow10(e) < x[2]
  ELSE Abs(x[1]) < x[2] * Pow10(-e)

\* C14: equals(a, b, precisionExponent) returns false whenever a and b
\* differ in rowCount or colCount; with the default Infinity it returns
\* true iff every pair of corresponding elements is equal; with a finite
\* precisionExponent it returns true iff |a.value[i] - b.value[i]| is
\* strictly below 10^(-precisionExponent) for every i.
C14_EqualsWithinPrecision ==
  Done("equals") =>
    res = ReturnedBoolean(
      /\ call.a.rowCount = call.b.rowCount
      /\ call.a.colCount = call.b.colCount
      /\ \A i \in 1..Len(call.a.value) :
           IF call.precisionExponent = Infinity
           THEN call.a.value[i] = call.b.value[i]
           ELSE WithinPowerOfTen(RSub(call.a.value[i], call.b.value[i]),
                                 call.precisionExponent[1]))

\* equals has returned false for two matrices of one shape no element of
\* which differs by more than epsilon, and one by exactly epsilon
C14_Witness ==
  /\ Done("equals") /\ res = ReturnedBoolean(FALSE)
  /\ call.precisionExponent = RInt(1)
  /\ sameSize(call.a, call.b)
  /\ \A i \in 1..Len(call.a.value) :
        RAbs(RSub(call.a.value[i], call.b.value[i])) = Rat(1, 10)

\* C15 (as claimed): fromRowMajor and fromColumnMajor never return a matrix
\* whose rowCount or colCount is 0; an input with an empty outer array or
\* with empty inner arrays fails.
C15_NoEmptyMatrix ==
  (Done("fromRowMajor") \/ Done("fromColumnMajor")) =>
     /\ res.kind = "matrix" => (res.val.rowCount > 0 /\ res.val.colCount > 0)
     /\ (Len(call.array) = 0 \/ \E r \in 1..Len(call.array) :
                                    Len(call.array[r]) = 0)
          => res.kind = "error"

\* a finite number
IsFinite(q) == q[2] # 0

\* C16 (as claimed): fromRowMajor and fromColumnMajor fail when an element
\* of the input is not a finite number: NaN, +Infinity, -Infinity or a
\* value that is not a number.
C16_NonFiniteRejected ==
  (/\ Done("fromRowMajor") \/ Done("fromColumnMajor")
   /\ \E r \in 1..Len(call.array) : \E c \in 1..Len(call.array[r]) :
         call.array[r][c].type # "number" \/ ~IsFinite(call.array[r][c].num))
  => res.kind = "error"

\* C17: fromColumnMajor(cols), for a non-empty array of arrays of numbers,
\* fails when the columns do not all have the length of the first column;
\* otherwise it returns rowCount = the length of the first column,
\* colCount = the number of columns and value[c * rowCount + r] = cols[c][r]
\* (the columns one after the other, no transposition).
C17_FromColumnMajorConcatenates ==
  (Done("fromColumnMajor") /\ Len(call.array) >= 1 /\ AllNumbers(call.array))
  => IF \E c \in 1..Len(call.array) : Len(call.array[c]) # Len(call.array[1])
     THEN res.kind = "error"
     ELSE /\ res.kind = "matrix"
          /\ res.val.rowCount = Len(call.array[1])
          /\ res.val.colCount = Len(call.array)
          /\ Len(res.val.value) = Len(call.array) * Len(call.array[1])
          /\ \A c \in 0..(Len(call.array) - 1) :
               \A r \in 0..(Len(call.array[1]) - 1) :
                  res.val.value[c * Len(call.array[1]) + r + 1]
                     = call.array[c + 1][r + 1].num

\* two columns of two rows whose off-diagonal entries differ have been
\* stored one after the other
C17_Witness ==
  /\ Done("fromColumnMajor") /\ res.kind = "matrix"
  /\ Len(call.array) = 2 /\ Len(call.array[1]) = 2
  /\ call.array[1][2] # call.array[2][1]
  /\ res.val.value[2] = call.array[1][2].num
  /\ res.val.value[3] = call.array[2][1].num

\* C18: for every matrix m with positive rowCount and colCount and a buffer
\* of rowCount * colCount elements, fromRowMajor(toRowMajor2dArray(m)) has
\* the rowCount, the colCount and exactly the buffer contents of m, and
\* toRowMajorArray(m) is the concatenation of the rows of
\* toRowMajor2dArray(m).
C18_RoundTrip ==
  /\ Done("toRowMajor2dArray") =>
       /\ fromRowMajor(res.val) = Returned(call.a)
       /\ Flat(res.val) = toRowMajorArray(call.a)
  /\ Done("toRowMajorArray") =>
       /\ Len(res.val) = call.a.rowCount * call.a.colCount
       /\ \A row \in 0..(call.a.rowCount - 1) :
            \A col \in 0..(call.a.colCount - 1) :
               res.val[row * call.a.colCount + col + 1].num
                  = At(call.a, row, col)

\* a matrix of two rows and three columns has been converted to two rows of
\* three, the second element of the first row being the third of the buffer
C18_Witness ==
  /\ Done("toRowMajor2dArray")
  /\ call.a.rowCount = 2 /\ call.a.colCount = 3
  /\ Len(res.val) = 2 /\ Len(res.val[1]) = 3
  /\ res.val[1][2].num = call.a.value[3]
  /\ res.val[1][2].num # call.a.value[2]
  /\ fromRowMajor(res.val).val.value = call.a.value

\* C19: inverse and determinant terminate on every input, returning or
\* failing: each iteration of the pivot loop moves pivot up by exactly one,
\* pivot never exceeds the size n of the matrix, so at most n iterations
\* run, and every call reaches its end.
C19_EliminationTerminates ==
  /\ [](pc = "loop" => pivot <= call.a.rowCount)
  /\ [][(pc = "loop" /\ pc' = "loop") => pivot' = pivot + 1]_vars
  /\ <>(pc = "done")

\* inverse has returned from a matrix of size 4 after four iterations
C19_Witness ==
  /\ Done("inverse") /\ res.kind = "matrix"
  /\ call.a.colCount = 4 /\ pivot = 4

\* the failure a call has run into, when it has failed
FailureCase ==
  CASE call.op = "valueAt" -> "index"
    [] call.op \in {"add", "subtract", "multiply"} -> "shape"
    [] call.op \in {"inverse", "determinant"} /\ ~IsSquare(call.a) -> "square"
    [] call.op = "inverse" /\ IsSquare(call.a) -> "singular"
    [] OTHER -> "other"

\* what a caller makes of an error from its class and, for a
\* ValidationError, its cause.reason; the message is not looked at
CallerClassifies(error) ==
  CASE error.name = "SingularMatrixError" -> "singular"
    [] error.name = "ValidationError" /\ error.reason = "outOfBounds" -> "index"
    [] error.name = "ValidationError" /\ error.reason = "sizeMismatch" -> "shape"
    [] error.name = "ValidationError" /\ error.reason = "notSquare" -> "square"
    [] OTHER -> "other"

\* C20: the error of valueAt for an index out of range, that of add,
\* subtract and multiply for mismatched shapes, that of inverse and
\* determinant for a matrix that is not square and that of inverse for a
\* singular matrix are four kinds a caller tells apart without the message
\* text: the class of the error and the reason of its cause determine which
\* of the four failures happened.
C20_FailuresDistinguishable ==
  (pc = "done" /\ res.kind = "error" /\ FailureCase # "other") =>
     CallerClassifies(res.val) = FailureCase

\* inverse has failed on a square matrix at its second pivot, and the error
\* is none of the validation errors
C20_Witness ==
  /\ Done("inverse") /\ IsSquare(call.a) /\ res.kind = "error"
  /\ pivot = 1
  /\ CallerClassifies(res.val) = "singular"
  /\ res.val.name # ValidationError("notSquare").val.name

\* the builders of the 4x4 transform layer
Mat4Builders ==
  { "mat4.getIdentity", "mat4.getTranslation", "mat4.getScale",
    "mat4.getRotateX", "mat4.getRotateY", "mat4.getRotateZ", "mat4.getRotate",
    "mat4.getLookAt", "mat4.getPerspective" }

\* C21: every matrix returned by a 4x4 transform builder (getIdentity,
\* getTranslation, getScale, getRotateX, getRotateY, getRotateZ, getRotate,
\* getLookAt, getPerspective) has rowCount = colCount = 4 and a buffer of
\* exactly 16 elements.
C21_BuildersReturn4x4 ==
  (pc = "done" /\ call.op \in Mat4Builders) =>
     /\ res.kind = "matrix"
     /\ res.val.rowCount = 4
     /\ res.val.colCount = 4
     /\ Len(res.val.value) = 16

\* the upper-left 3x3 block of a 4x4 matrix, column by column
Block3(matrix) ==
  [i \in 1..9 |-> Elem(matrix.value, ((i - 1) \div 3) * 4 + ((i - 1) % 3))]

\* C22: getRotateX, getRotateY and getRotateZ use the rotation convention of
\* getRotate: for every angle the upper-left 3x3 block of getRotateX(rad) is
\* that of getRotate(rad, [1,0,0]), that of getRotateY(rad) is that of
\* getRotate(rad, [0,1,0]) and that of getRotateZ(rad) is that of
\* getRotate(rad, [0,0,1]).
C22_AxisRotationsFollowGetRotate ==
  /\ Done("mat4.getRotateX") =>
       /\ res.kind = "matrix"
       /\ Block3(res.val) = Block3(getRotate(call.rad, <<One, Zero, Zero>>))
  /\ Done("mat4.getRotateY") =>
       /\ res.kind = "matrix"
       /\ Block3(res.val) = Block3(getRotate(call.rad, <<Zero, One, Zero>>))
  /\ Done("mat4.getRotateZ") =>
       /\ res.kind = "matrix"
       /\ Block3(res.val) = Block3(getRotate(call.rad, <<Zero, Zero, One>>))

\* |matrix[r, p]|
AbsAt(matrix, r, p) == RAbs(At(matrix, r, p))

\* the lowest row among p .. size-1 whose entry in column p is largest in
\* absolute value
FirstMaxRow(matrix, size, p) ==
  CHOOSE r \in p..(size - 1) :
    /\ \A q \in p..(size - 1) : ~RLt(AbsAt(matrix, r, p), AbsAt(matrix, q, p))
    /\ \A q \in p..(r - 1) : RLt(AbsAt(matrix, q, p), AbsAt(matrix, r, p))

\* row r of a matrix
RowValues(matrix, r) == [c \in 1..matrix.colCount |-> At(matrix, r, c - 1)]

\* row r of a matrix divided by its entry in column p
NormalizedRow(matrix, r, p) ==
  [c \in 1..matrix.colCount |->
     RMul(At(matrix, r, c - 1), RInv(At(matrix, r, p)))]

\* a pivot iteration has run to its end
PivotStepCompleted == pc = "loop" /\ pc' = "loop" /\ pivot' = pivot + 1

\* C23: in every pivot step of inverse, and in every pivot step of
\* determinant whose search runs (|M[p,p]| < 1e-5), the row brought to the
\* pivot position is the lowest row of p .. size-1 attaining the maximum
\* absolute value in column p; rows are swapped (and the determinant's sign
\* flipped) only when that row is not row p itself.
C23_PivotTieBreak ==
  [][PivotStepCompleted =>
       LET size == call.a.colCount
           searches ==
             \/ call.op = "inverse"
             \/ BelowInverseOf(At(m, pivot, pivot), DeterminantPivotK)
           maxRow == IF searches THEN FirstMaxRow(m, size, pivot) ELSE pivot
       IN  /\ RowValues(m', pivot) = NormalizedRow(m, maxRow, pivot)
           /\ (call.op = "inverse") =>
                RowValues(inv', pivot) =
                  [c \in 1..size |->
                     RMul(At(inv, maxRow, c - 1), RInv(At(m, maxRow, pivot)))]
           /\ (call.op = "determinant") =>
                det' = RMul(IF maxRow # pivot THEN RNeg(det) ELSE det,
                            At(m, maxRow, pivot))]_vars

\* inverse has completed its first pivot step on a matrix whose rows 0 and 1
\* tie in column 0 and differ elsewhere: row 0 stayed in place
C23_Witness ==
  /\ pc = "loop" /\ call.op = "inverse" /\ pivot = 1
  /\ call.a.rowCount >= 2
  /\ AbsAt(call.a, 0, 0) = AbsAt(call.a, 1, 0)
  /\ RowValues(call.a, 0) # RowValues(call.a, 1)
  /\ RowValues(m, 0) = NormalizedRow(call.a, 0, 0)
  /\ RowValues(m, 0) # NormalizedRow(call.a, 1, 0)

\* column p of the matrix holds an entry that is not 0 and is below the
\* elimination-skip epsilon 1e-8
HasEntryBelowSkip(matrix, size, p) ==
  \E r \in 0..(size - 1) :
     At(matrix, r, p) # Zero /\ BelowInverseOf(At(matrix, r, p), EliminationSkipK)

\* the pivot steps p .. k-1 of inverse meet no entry below the skip epsilon
RECURSIVE SkipFree(_, _, _, _, _)
SkipFree(work, inverted, size, p, k) ==
  IF p >= k
  THEN TRUE
  ELSE /\ ~HasEntryBelowSkip(work, size, p)
       /\ \A step \in {InversePivotStep(work, inverted, size, p)} :
             step.thrown \/ SkipFree(step.m, step.inv, size, p + 1, k)

\* column c of the matrix is column c of the identity
IsUnitColumn(matrix, size, c) ==
  \A r \in 0..(size - 1) : At(matrix, r, c) = IF r = c THEN One ELSE Zero

\* C24: in inverse, once the iteration for pivot column p is complete,
\* M[p,p] = 1, M[r,p] = 0 for every r # p and the columns 0 .. p-1 are still
\* unit columns; when inverse returns, M is the identity.  (Exact
\* arithmetic, no entry met below the skip epsilon 1e-8.)
C24_FullReduction ==
  (call.op = "inverse" /\ pc \in {"loop", "done"} /\ IsSquare(call.a)) =>
     \/ /\ \A c \in 0..(pivot - 1) : IsUnitColumn(m, call.a.colCount, c)
        /\ (pc = "done" /\ res.kind = "matrix") =>
              m = getIdentity(call.a.colCount).val
     \/ ~SkipFree(getClone(call.a), getIdentity(call.a.colCount).val,
                  call.a.colCount, 0, pivot)

\* inverse has returned for a matrix of size 2 or more with a non-zero entry
\* above the diagonal, and the working matrix is the identity
C24_Witness ==
  /\ Done("inverse") /\ res.kind = "matrix"
  /\ call.a.colCount >= 2
  /\ At(call.a, 0, 1) # Zero
  /\ SkipFree(getClone(call.a), getIdentity(call.a.colCount).val,
              call.a.colCount, 0, pivot)
  /\ m = getIdentity(call.a.colCount).val

\* C25: inverse applies every row swap, row scaling and scaled-row
\* subtraction to M and to Inv alike, so that from the entry into the pivot
\* loop on, after each completed row operation, Inv times the original input
\* equals M (exact arithmetic).
C25_Lockstep ==
  [][(call.op = "inverse" /\ pc' = "loop") =>
       IF PivotStepCompleted
       THEN \A ops \in {InverseRowOperations(m, inv, call.a.colCount, pivot)} :
               /\ ops[Len(ops)] = [m |-> m', inv |-> inv']
               /\ \A k \in 1..Len(ops) :
                     multiply(ops[k].inv, call.a).val = ops[k].m
       ELSE multiply(inv', call.a).val = m']_vars

\* inverse has completed a pivot step that swapped rows, on a matrix of size
\* 2 or more, and Inv times the input is M
C25_Witness ==
  /\ pc = "loop" /\ call.op = "inverse" /\ pivot = 1
  /\ call.a.colCount >= 2
  /\ RLt(AbsAt(call.a, 0, 0), AbsAt(call.a, 1, 0))
  /\ inv # getIdentity(call.a.colCount).val
  /\ multiply(inv, call.a).val = m

\* C26: for every square matrix, if determinant returns exactly 0 then
\* inverse of the same matrix throws the singular-matrix error and returns
\* no matrix.
C26_ZeroDeterminantMeansNoInverse ==
  (Done("determinant") /\ IsSquare(call.a) /\ res = ReturnedNumber(Zero)) =>
     inverse(call.a) = SingularMatrixError

\* a 4x4 matrix: both counts are 4 and the buffer holds 16 elements
Is4x4(matrix) ==
  matrix.rowCount = 4 /\ matrix.colCount = 4 /\ Len(matrix.value) = 16

StructurallyConsistent(value) ==
  /\ value.typeof = "object" /\ ~value.isNull
  /\ value.type = TYPE_NAME
  /\ value.class = "Float64Array"
  /\ value.rowCount.type = "number" /\ RLt(Zero, value.rowCount.num)
  /\ value.colCount.type = "number" /\ RLt(Zero, value.colCount.num)
  /\ RInt(Len(value.value)) = RMul(value.rowCount.num, value.colCount.num)

\* C28: isf64Mat returns true only for structurally consistent matrices
\* (the f64Mat tag, a Float64Array, numeric rowCount > 0 and colCount > 0,
\* value.length = rowCount * colCount); for an object whose buffer length
\* does not match its counts it returns false.
C28_GuardChecksStructure ==
  Done("isf64Mat") =>
     /\ (res = ReturnedBoolean(TRUE)) => StructurallyConsistent(call.value)
     /\ (/\ call.value.typeof = "object" /\ ~call.value.isNull
         /\ call.value.rowCount.type = "number"
         /\ call.value.colCount.type = "number"
         /\ RInt(Len(call.value.value)) #
              RMul(call.value.rowCount.num, call.value.colCount.num)) =>
           res = ReturnedBoolean(FALSE)

\* C29: in the DynamicMatrix variant, equalsMatrix(a, b) returns false
\* whenever a and b differ in rowCount or in colCount (one of the two
\* differing is enough), for all matrices whose buffers have
\* rowCount * colCount elements.
C29_EqualsMatrixComparesShapes ==
  (/\ Done("equalsMatrix")
   /\ Len(call.a.value) = call.a.rowCount * call.a.colCount
   /\ Len(call.b.value) = call.b.rowCount * call.b.colCount
   /\ (call.a.rowCount # call.b.rowCount \/ call.a.colCount # call.b.colCount)) =>
     res = ReturnedBoolean(FALSE)

\* C30: in the DynamicMatrix class, generateClone() returns a new instance
\* with the rowCount, the colCount and the buffer contents of the original
\* (sameSize(clone, original) holds, getAt agrees on every index in range),
\* and multiplyScalar on the clone leaves the original's values as they
\* were.
C30_GenerateCloneCopies ==
  (call.op = "generateClone" /\ pc \in {"cloned", "done"}) =>
     /\ res.kind = "matrix"
     /\ res.val.value # call.a.value
     /\ DynamicMatrix_sameSize(res.val, call.a)
     /\ (pc = "cloned") =>
           /\ heap[res.val.value] = heap[call.a.value]
           /\ \A c \in 0..(call.a.colCount - 1), r \in 0..(call.a.rowCount - 1) :
                 DynamicMatrix_getAt(Deref(heap, res.val), c, r) =
                 DynamicMatrix_getAt(Deref(heap, call.a), c, r)
     /\ heap[call.a.value] = call.entry

====
